---- MODULE Spec2Model ----
(***************************************************************************)
(* Invoice reconciliation service: idempotent bulk import of bank          *)
(* transactions, pairwise match scoring, reconciliation (candidate         *)
(* selection + persistence of PROPOSED matches) and match confirmation.    *)
(*                                                                         *)
(* Tables are sequences of rows; a row's id is its index (ids are handed   *)
(* out 1, 2, 3, ... and no modelled operation deletes a row).  Queries     *)
(* without ORDER BY return rows in ascending id order, which is what the   *)
(* default SQLite store does for these index scans.                        *)
(* Amounts are in cents, scores in hundredths of a point, timestamps in    *)
(* half days, texts are sequences of one-character strings.                *)
(***************************************************************************)
EXTENDS Integers, Sequences, FiniteSets, TLC

VARIABLES invoices, transactions, matches, idem, last, sess

vars == <<invoices, transactions, matches, idem, last, sess>>

\* ------------------------------------------------------------------ bounds
\* Most rows the bank_transactions table may hold in the import runs.
MaxTx == 2
\* Most rows the invoices and the bank_transactions table may hold together
\* in the reconciliation runs.
MaxRows == 4

\* ------------------------------------------------------- program constants
EXACT_AMOUNT_WEIGHT == 5000
AMOUNT_TOLERANCE_WEIGHT == 3000
DATE_PROXIMITY_WEIGHT == 1500
TEXT_SIMILARITY_WEIGHT == 500
AMOUNT_TOLERANCE == 1
DATE_TOLERANCE_DAYS == 3
MIN_SCORE_THRESHOLD == 2000
MAX_SCORE == 10000
\* A timestamp unit is half a day.
UnitsPerDay == 2

Tenants == {1, 2}
\* Python None for an optional string.
None == "None"
\* The absent idempotency key (None or the empty string are both falsy).
NoKey == ""
OPEN == "open"
MATCHED == "matched"
PAID == "paid"
PROPOSED == "proposed"
CONFIRMED == "confirmed"
REJECTED == "rejected"

\* ------------------------------------------------------------ sequence help
Range(s) == {s[i] : i \in 1..Len(s)}

\* The ids of a set, as the ascending sequence a query returns them in.
RECURSIVE AscSeq(_)
AscSeq(S) ==
    IF S = {} THEN <<>>
    ELSE LET m == CHOOSE x \in S : \A y \in S : x <= y
         IN <<m>> \o AscSeq(S \ {m})

Abs(x) == IF x < 0 THEN -x ELSE x
Min2(a, b) == IF a <= b THEN a ELSE b

\* floor(a / b) for b > 0, as Python's timedelta normalisation floors.
FloorDiv(a, b) == IF a >= 0 THEN a \div b ELSE -((-a + b - 1) \div b)

\* -------------------------------------------------------------------- text
\* str.lower() on the model's alphabet.
LowerChar(c) == IF c = "A" THEN "a" ELSE IF c = "B" THEN "b" ELSE c
Lower(s) == [i \in 1..Len(s) |-> LowerChar(s[i])]

\* Length of the common run of a from i and b from j, inside a[..ahi], b[..bhi]
\* (positions are 1-based, ahi and bhi are inclusive).
RECURSIVE RunLen(_, _, _, _, _, _)
RunLen(a, b, i, j, ahi, bhi) ==
    IF i > ahi \/ j > bhi THEN 0
    ELSE IF a[i] # b[j] THEN 0
    ELSE 1 + RunLen(a, b, i + 1, j + 1, ahi, bhi)

\* Length of the common run of a backwards from i and b backwards from j,
\* not below alo and blo.
RECURSIVE BackLen(_, _, _, _, _, _)
BackLen(a, b, i, j, alo, blo) ==
    IF i < alo \/ j < blo THEN 0
    ELSE IF a[i] # b[j] THEN 0
    ELSE 1 + BackLen(a, b, i - 1, j - 1, alo, blo)

\* Length of the second text from which SequenceMatcher (autojunk=True, the
\* default) drops popular characters from its index.
AutoJunkLen == 200

\* The popular characters of b: when b has 200 characters or more, those
\* that occur more than len(b) // 100 + 1 times.
Popular(b) ==
    IF Len(b) < AutoJunkLen THEN {}
    ELSE {c \in Range(b) :
             Cardinality({j \in 1..Len(b) : b[j] = c}) > Len(b) \div 100 + 1}

\* Length of the common run of a from i and b from j over characters of b
\* that are in the index (not in pop), inside a[..ahi], b[..bhi].
RECURSIVE SeedLen(_, _, _, _, _, _, _)
SeedLen(a, b, pop, i, j, ahi, bhi) ==
    IF i > ahi \/ j > bhi THEN 0
    ELSE IF a[i] # b[j] \/ b[j] \in pop THEN 0
    ELSE 1 + SeedLen(a, b, pop, i + 1, j + 1, ahi, bhi)

\* The blocks a[i..i+k-1] = b[j..j+k-1] of indexed characters that start
\* inside the windows, as <<i, j, k>>, each as long as the windows allow.
Blocks(a, b, pop, alo, ahi, blo, bhi) ==
    {<<i, j, SeedLen(a, b, pop, i, j, ahi, bhi)>> : i \in alo..ahi, j \in blo..bhi}

\* Block c is at least as good as block d: longer, or as long and starting
\* earlier in a, or there too and starting no later in b.
BetterBlock(c, d) ==
    \/ c[3] > d[3]
    \/ /\ c[3] = d[3]
       /\ \/ c[1] < d[1]
          \/ c[1] = d[1] /\ c[2] <= d[2]

LongestOf(S) == CHOOSE c \in S : \A d \in S : BetterBlock(c, d)

\* Block m grown by l characters to the left and r to the right.
Extended(m, l, r) == <<m[1] - l, m[2] - l, m[3] + l + r>>

\* The extension loops of find_longest_match: the block grows to the left and
\* to the right over equal characters, popular ones included (no character is
\* junk: isjunk is None).
ExtendMatch(a, b, alo, ahi, blo, bhi, m) ==
    Extended(m, BackLen(a, b, m[1] - 1, m[2] - 1, alo, blo),
             RunLen(a, b, m[1] + m[3], m[2] + m[3], ahi, bhi))

\* difflib.SequenceMatcher.find_longest_match: the longest block of indexed
\* characters within the windows; of the longest, the one that starts
\* earliest in a, and of those the one that starts earliest in b; <<alo, blo,
\* 0>> without one; then the extension.
FindLongestMatch(a, b, alo, ahi, blo, bhi) ==
    ExtendMatch(a, b, alo, ahi, blo, bhi,
                LongestOf(Blocks(a, b, Popular(b), alo, ahi, blo, bhi) \cup {<<alo, blo, 0>>}))

\* Sum of the sizes of SequenceMatcher.get_matching_blocks(): the longest
\* match m, then recursively the pieces to its left and to its right.
RECURSIVE MatchingSize(_, _, _, _, _, _)
SizeAround(a, b, alo, ahi, blo, bhi, m) ==
    IF m[3] = 0 THEN 0
    ELSE m[3]
         + MatchingSize(a, b, alo, m[1] - 1, blo, m[2] - 1)
         + MatchingSize(a, b, m[1] + m[3], ahi, m[2] + m[3], bhi)

MatchingSize(a, b, alo, ahi, blo, bhi) ==
    IF alo > ahi \/ blo > bhi THEN 0
    ELSE SizeAround(a, b, alo, ahi, blo, bhi, FindLongestMatch(a, b, alo, ahi, blo, bhi))

\* a in b (Python substring test), for non-empty a.
IsSubstring(a, b) ==
    \E s \in 1..(Len(b) - Len(a) + 1) : RunLen(a, b, 1, s, Len(a), Len(b)) = Len(a)

\* The invoice side of the comparison: lower-cased invoice_number,
\* " " + description, " " + vendor name, absent parts skipped.
InvoiceText(inv) ==
    (IF inv.invoice_number # <<>> THEN Lower(inv.invoice_number) ELSE <<>>)
    \o (IF inv.description # <<>> THEN <<" ">> \o Lower(inv.description) ELSE <<>>)
    \o (IF inv.vendor_name # <<>> THEN <<" ">> \o Lower(inv.vendor_name) ELSE <<>>)

TransactionText(tx) == Lower(tx.description)

\* SequenceMatcher(None, a, b).ratio() as the fraction <<2*M, T>>.
Ratio(a, b) == <<2 * MatchingSize(a, b, 1, Len(a), 1, Len(b)), Len(a) + Len(b)>>

\* Mutant: containment does not raise the ratio.
AtLeastFourFifths_NoFloor(r) == r

\* max(similarity, 0.8) on fractions.
AtLeastFourFifths(r) == IF 5 * r[1] < 4 * r[2] THEN <<4, 5>> ELSE r

\* The similarity of two texts: 0 when a side is empty, else the ratio, raised
\* to 0.8 when one text contains the other.
SimilarityOf(a, b) ==
    IF a = <<>> \/ b = <<>> THEN <<0, 1>>
    ELSE IF IsSubstring(a, b) \/ IsSubstring(b, a) THEN AtLeastFourFifths(Ratio(a, b))
    ELSE Ratio(a, b)

\* _text_similarity_score as the fraction <<numerator, denominator>>.
TextSimilarity(inv, tx) == SimilarityOf(InvoiceText(inv), TransactionText(tx))

\* Decimal.quantize(Decimal("0.01")) of n/d hundredths under the default
\* context rounding, ROUND_HALF_EVEN.
RoundHalfEven(n, d) ==
    LET q == n \div d
        r == n - q * d
    IN IF 2 * r > d THEN q + 1
       ELSE IF 2 * r = d THEN (IF q % 2 = 1 THEN q + 1 ELSE q)
       ELSE q

\* ------------------------------------------------------------------ scorer
\* abs((invoice_date - posted_at).days): timedelta.days is the floor of the
\* difference in days, so a negative fraction of a day counts as a whole day.
DateDiffDays(invoice_date, posted_at) ==
    Abs(FloorDiv(invoice_date - posted_at, UnitsPerDay))

\* Mutant: the proportion is d/tolerance instead of 1 - d/tolerance.
AmountTerm_InvertedProportion(inv, tx) ==
    LET d == Abs(inv.amount - tx.amount)
    IN IF d = 0 THEN <<EXACT_AMOUNT_WEIGHT, <<"exact amount match", 0>>>>
       ELSE IF d <= AMOUNT_TOLERANCE
            THEN <<(AMOUNT_TOLERANCE_WEIGHT * d) \div AMOUNT_TOLERANCE,
                   <<"amount within tolerance", d>>>>
       ELSE <<0, <<"amount mismatch", 0>>>>

\* Amount factor: <<contribution, reason>>.
AmountTerm(inv, tx) ==
    LET d == Abs(inv.amount - tx.amount)
    IN IF d = 0 THEN <<EXACT_AMOUNT_WEIGHT, <<"exact amount match", 0>>>>
       ELSE IF d <= AMOUNT_TOLERANCE
            THEN <<(AMOUNT_TOLERANCE_WEIGHT * (AMOUNT_TOLERANCE - d)) \div AMOUNT_TOLERANCE,
                   <<"amount within tolerance", d>>>>
       ELSE <<0, <<"amount mismatch", 0>>>>

\* Mutant: the full weight for every pair within the tolerance.
DateTerm_FullWeight(inv, tx) ==
    IF inv.invoice_date = <<>> THEN <<0, <<>>>>
    ELSE LET days == DateDiffDays(inv.invoice_date[1], tx.posted_at)
         IN IF days <= DATE_TOLERANCE_DAYS
            THEN <<DATE_PROXIMITY_WEIGHT, <<<<"date within days", days>>>>>>
            ELSE <<0, <<<<"date difference days", days>>>>>>

\* Date factor: <<contribution, reasons>>; no reason entry without both dates.
DateTerm(inv, tx) ==
    IF inv.invoice_date = <<>> THEN <<0, <<>>>>
    ELSE LET days == DateDiffDays(inv.invoice_date[1], tx.posted_at)
         IN IF days <= DATE_TOLERANCE_DAYS
            THEN <<(DATE_PROXIMITY_WEIGHT * (DATE_TOLERANCE_DAYS - days)) \div DATE_TOLERANCE_DAYS,
                   <<<<"date within days", days>>>>>>
            ELSE <<0, <<<<"date difference days", days>>>>>>

\* score after the three factors were added, before the cap: the text factor
\* is 5 * sim, and quantize rounds the sum to hundredths.
ScoreSum(a, d, sim) ==
    IF sim[1] > 0
    THEN RoundHalfEven((a[1] + d[1]) * sim[2] + TEXT_SIMILARITY_WEIGHT * sim[1], sim[2])
    ELSE a[1] + d[1]

\* The reasons list (an empty list is rendered "low confidence match",
\* otherwise the entries are joined with "; ").
Reasons(a, d, sim) ==
    <<a[2]>> \o d[2] \o (IF sim[1] > 0 THEN <<<<"text similarity match", 0>>>> ELSE <<>>)

\* The piece of text between two joined entries.
Separator == <<"; ", 0>>

\* "; ".join(reasons): the entries with a separator between neighbours.
RECURSIVE Join(_)
Join(rs) == IF Len(rs) <= 1 THEN rs ELSE <<Head(rs), Separator>> \o Join(Tail(rs))

\* An entry of a factor that matched.
Contributes(r) == r[1] \notin {"amount mismatch", "date difference days"}

\* Mutant: the entries of the factors that did not match are left out.
ReasonText_Contributing(rs) ==
    IF SelectSeq(rs, Contributes) # <<>> THEN Join(SelectSeq(rs, Contributes))
    ELSE <<<<"low confidence match", 0>>>>

\* reason: the joined entries, or "low confidence match" for an empty list.
ReasonText(rs) ==
    IF rs # <<>> THEN Join(rs) ELSE <<<<"low confidence match", 0>>>>

ScoreOfTerms(a, d, sim) ==
    [score |-> Min2(ScoreSum(a, d, sim), MAX_SCORE), reasons |-> Reasons(a, d, sim),
     reason |-> ReasonText(Reasons(a, d, sim))]

\* _calculate_match_score: the capped, quantized sum and the list of reasons.
CalculateMatchScore(inv, tx) ==
    ScoreOfTerms(AmountTerm(inv, tx), DateTerm(inv, tx), TextSimilarity(inv, tx))

\* ------------------------------------------------------------------ queries
\* The place of a deleted invoices row: the id is kept by no row, no tenant
\* owns it and no query finds it.
DeletedRow ==
    [tenant_id |-> 0, invoice_number |-> <<>>, amount |-> 0, currency |-> "",
     invoice_date |-> <<>>, description |-> <<>>, vendor_name |-> <<>>,
     status |-> "deleted"]

\* A row with this id is stored.
Stored(invs, i) == i \in 1..Len(invs) /\ invs[i] # DeletedRow

\* Mutant: the query does not filter on the status.
GetOpenInvoices_AnyStatus(invs, t) ==
    AscSeq({i \in 1..Len(invs) : invs[i].tenant_id = t})

\* InvoiceService.get_open_invoices
GetOpenInvoices(invs, t) ==
    AscSeq({i \in 1..Len(invs) : invs[i].tenant_id = t /\ invs[i].status = OPEN})

\* BankTransactionService.get_unmatched_transactions
GetUnmatchedTransactions(txs, ms, t) ==
    LET matched_ids == {ms[m].bank_transaction_id :
                           m \in {x \in 1..Len(ms) : ms[x].tenant_id = t /\ ms[x].status = CONFIRMED}}
    IN AscSeq({b \in 1..Len(txs) : txs[b].tenant_id = t /\ b \notin matched_ids})

\* The row found by (tenant, external_id), 0 when there is none.
FindByExternalId(txs, t, ext) ==
    LET hit == {b \in 1..Len(txs) : txs[b].tenant_id = t /\ txs[b].external_id = ext}
    IN IF hit = {} THEN 0 ELSE CHOOSE b \in hit : \A c \in hit : b <= c

\* Mutant: the lookup filters on the key only.
FindIdem_AnyTenant(tbl, t, k) ==
    LET hit == {r \in 1..Len(tbl) : tbl[r].idempotency_key = k}
    IN IF hit = {} THEN 0 ELSE CHOOSE r \in hit : \A c \in hit : r <= c

\* The idempotency row of (tenant, key), 0 when there is none.
FindIdem(tbl, t, k) ==
    LET hit == {r \in 1..Len(tbl) : tbl[r].tenant_id = t /\ tbl[r].idempotency_key = k}
    IN IF hit = {} THEN 0 ELSE CHOOSE r \in hit : \A c \in hit : r <= c

\* Mutant: reconcile never finds the row a pair already has.
FindMatch_Never(ms, t, i, b) == 0

\* The Match row of (tenant, invoice, transaction), 0 when there is none.
FindMatch(ms, t, i, b) ==
    LET hit == {m \in 1..Len(ms) : /\ ms[m].tenant_id = t
                                   /\ ms[m].invoice_id = i
                                   /\ ms[m].bank_transaction_id = b}
    IN IF hit = {} THEN 0 ELSE CHOOSE m \in hit : \A c \in hit : m <= c

\* -------------------------------------------------------------- idempotency
\* IdempotencyService.hash_payload: sha256 of the sorted-key JSON dump of the
\* item list, i.e. an injective image of the ordered list of the dumped
\* fields.  model_dump(mode='json') writes the amount as the text of the
\* Decimal (value and number of decimals as sent) and posted_at as ISO text
\* (instant and zone designator as sent).
HashPayload(p) ==
    <<"sha256", [i \in 1..Len(p) |-> <<<<p[i].amount, p[i].amount_scale>>, p[i].currency,
                                       p[i].description, p[i].external_id,
                                       <<p[i].posted_at, p[i].posted_at_zone>>>>]>>

\* The value get_payload_hash returns when there is no row (Python None).
NoHash == <<>>

\* IdempotencyService.get_payload_hash
GetPayloadHash(tbl, t, k) ==
    LET r == FindIdem(tbl, t, k) IN IF r = 0 THEN NoHash ELSE tbl[r].payload_hash

\* IdempotencyService.store_result: overwrite the row of (tenant, key) or add one.
StoreResult(tbl, t, k, h, ids) ==
    LET r == FindIdem(tbl, t, k)
    IN IF r # 0
       THEN [tbl EXCEPT ![r].payload_hash = h, ![r].transaction_ids = ids]
       ELSE Append(tbl, [tenant_id |-> t, idempotency_key |-> k,
                         payload_hash |-> h, transaction_ids |-> ids])

\* ------------------------------------------------------------------- import
\* What the last completed request was and what it returned.
\* writes counts the rows the request inserted or updated.
Outcome(op, t, arg, status, result, replayed, writes) ==
    [op |-> op, tenant |-> t, arg |-> arg, status |-> status,
     result |-> result, replayed |-> replayed, writes |-> writes]

\* The replay query: rows whose id is in the stored list and whose tenant is t.
QueryByIds(txs, ids, t) ==
    AscSeq({b \in Range(ids) : b \in 1..Len(txs) /\ txs[b].tenant_id = t})

\* Mutant: the loop never looks for a stored row.
ImportRefs_NoLookup(txs, t, p) == [i \in 1..Len(p) |-> 0]

\* The per-item existence check of the import loop: for each item the id of the
\* stored row with its (tenant, external_id), 0 for an item that gets a new row.
ImportRefs(txs, t, p) ==
    [i \in 1..Len(p) |-> IF p[i].external_id # None
                         THEN FindByExternalId(txs, t, p[i].external_id)
                         ELSE 0]

\* new_transactions_to_add, in payload order.
NewRows(t, p, refs) ==
    LET idx == AscSeq({i \in 1..Len(p) : refs[i] = 0})
    IN [n \in 1..Len(idx) |->
           [tenant_id |-> t,
            external_id |-> p[idx[n]].external_id,
            posted_at |-> p[idx[n]].posted_at,
            amount |-> p[idx[n]].amount,
            currency |-> p[idx[n]].currency,
            description |-> p[idx[n]].description]]

\* The unique index ix_tenant_external_id (NULL external ids never collide).
TxUniqueOk(txs) ==
    \A a, b \in 1..Len(txs) :
        (a # b /\ txs[a].external_id # None /\ txs[a].tenant_id = txs[b].tenant_id)
            => txs[a].external_id # txs[b].external_id

\* Mutant: every row is committed on its own; a row the index rejects is
\* dropped and the rows before it stay.
RECURSIVE CommitRows_RowByRow(_, _)
CommitRows_RowByRow(txs, rows) ==
    IF rows = <<>> THEN txs
    ELSE IF TxUniqueOk(Append(txs, Head(rows)))
    THEN CommitRows_RowByRow(Append(txs, Head(rows)), Tail(rows))
    ELSE txs

\* Mutant: the new rows are written over the oldest stored rows.
CommitRows_Overwrite(txs, rows) ==
    IF Len(rows) <= Len(txs) THEN rows \o SubSeq(txs, Len(rows) + 1, Len(txs)) ELSE rows

\* db.add of every new row, then one commit: all rows are stored, or, when
\* the index rejects one, the rollback leaves the table as it was.
CommitRows(txs, rows) == IF TxUniqueOk(txs \o rows) THEN txs \o rows ELSE txs

\* [tx.id for tx in created_transactions] once the new rows have their ids.
CreatedIds(refs, base) ==
    [i \in 1..Len(refs) |->
        IF refs[i] # 0 THEN refs[i]
        ELSE base + Cardinality({j \in 1..i : refs[j] = 0})]

\* Mutant: the reused key goes unnoticed.
KeyReused_Never(stored, h) == FALSE

\* The conflict test of import_transactions: a hash is stored for the key and
\* it is not the hash of this payload.
KeyReused(stored, h) == stored # NoHash /\ stored # h

\* BankTransactionService.import_transactions run to completion against the
\* committed tables txs and tbl: the result and the tables it leaves.
ImportTransactions(txs, tbl, t, k, p) ==
    LET h == HashPayload(p)
        stored == IF k # NoKey THEN GetPayloadHash(tbl, t, k) ELSE NoHash
        r == IF k # NoKey THEN FindIdem(tbl, t, k) ELSE 0
        stored_ids == IF r # 0 THEN tbl[r].transaction_ids ELSE <<>>
        replay == QueryByIds(txs, stored_ids, t)
        refs == ImportRefs(txs, t, p)
        rows == NewRows(t, p, refs)
        ids == CreatedIds(refs, Len(txs))
        unchanged(status, res, rep) ==
            [status |-> status, result |-> res, replayed |-> rep,
             transactions |-> txs, idem |-> tbl]
    IN IF KeyReused(stored, h)
       THEN unchanged("Conflict", <<>>, FALSE)
       ELSE IF stored_ids # <<>> /\ Len(replay) = Len(stored_ids)
       THEN unchanged("ok", replay, TRUE)
       ELSE IF k # NoKey /\ rows = <<>> /\ refs # <<>>
       THEN [status |-> "ok", result |-> ids, replayed |-> TRUE,
             transactions |-> txs, idem |-> StoreResult(tbl, t, k, h, ids)]
       ELSE IF Len(CommitRows(txs, rows)) < Len(txs) + Len(rows)
       THEN [status |-> "PersistenceError", result |-> <<>>, replayed |-> FALSE,
             transactions |-> CommitRows(txs, rows), idem |-> tbl]
       ELSE [status |-> "ok", result |-> ids, replayed |-> FALSE,
             transactions |-> CommitRows(txs, rows),
             idem |-> IF k # NoKey /\ (rows # <<>> \/ stored = NoHash)
                      THEN StoreResult(tbl, t, k, h, ids)
                      ELSE tbl]

Import(t, k, p) ==
    LET out == ImportTransactions(transactions, idem, t, k, p)
    IN /\ transactions' = out.transactions
       /\ idem' = out.idem
       /\ last' = Outcome("import", t, <<k, p>>, out.status, out.result, out.replayed,
                          Len(out.transactions) - Len(transactions))
       /\ UNCHANGED <<invoices, matches, sess>>

\* import_transactions when persisting the idempotency record raises: the new
\* rows were committed before, the exception is swallowed and the rollback
\* undoes the record only, so the request answers as if the record was stored.
ImportStoreFails(t, k, p) ==
    LET out == ImportTransactions(transactions, idem, t, k, p)
    IN /\ out.idem # idem
       /\ transactions' = out.transactions
       /\ idem' = idem
       /\ last' = Outcome("import", t, <<k, p>>, out.status, out.result, out.replayed,
                          Len(out.transactions) - Len(transactions))
       /\ UNCHANGED <<invoices, matches, sess>>

\* ---------------------------------------------------------------- reconcile
\* The MatchCandidate of invoice i and transaction b.
Candidate(invs, txs, i, b) ==
    [invoice_id |-> i, bank_transaction_id |-> b,
     score |-> CalculateMatchScore(invs[i], txs[b]).score]

\* Mutant: a later transaction with an equal score replaces the candidate.
Keep_LastTieWins(best, cand) ==
    IF cand.score >= MIN_SCORE_THRESHOLD /\ (best = <<>> \/ cand.score >= best[1].score)
    THEN <<cand>> ELSE best

\* best_matches[invoice.id] after a scored pair: the candidate replaces the
\* entry when it reaches the threshold and there is no entry yet or it scores
\* strictly higher.  best is <<>> or <<candidate>>.
Keep(best, cand) ==
    IF cand.score >= MIN_SCORE_THRESHOLD /\ (best = <<>> \/ cand.score > best[1].score)
    THEN <<cand>> ELSE best

\* Mutant: pairs of different currencies are scored like any other pair.
RECURSIVE BestMatch_AnyCurrency(_, _, _, _, _)
BestMatch_AnyCurrency(invs, txs, i, order, best) ==
    IF order = <<>> THEN best
    ELSE BestMatch_AnyCurrency(invs, txs, i, Tail(order),
                               Keep(best, Candidate(invs, txs, i, Head(order))))

\* The inner loop of reconcile for one invoice: walk the transactions in
\* iteration order, skip other currencies, score the others.
RECURSIVE BestMatch(_, _, _, _, _)
BestMatch(invs, txs, i, order, best) ==
    IF order = <<>> THEN best
    ELSE IF invs[i].currency # txs[Head(order)].currency
    THEN BestMatch(invs, txs, i, Tail(order), best)
    ELSE BestMatch(invs, txs, i, Tail(order),
                   Keep(best, Candidate(invs, txs, i, Head(order))))

\* list(best_matches.values()): one candidate per invoice that has one, in
\* the order the invoices were walked.
RECURSIVE CandidatesOf(_, _, _, _)
CandidatesOf(invs, txs, inv_order, tx_order) ==
    IF inv_order = <<>> THEN <<>>
    ELSE BestMatch(invs, txs, Head(inv_order), tx_order, <<>>)
         \o CandidatesOf(invs, txs, Tail(inv_order), tx_order)

\* The candidates of a reconcile run for tenant t on the given tables.
Candidates(invs, txs, ms, t) ==
    CandidatesOf(invs, txs, GetOpenInvoices(invs, t), GetUnmatchedTransactions(txs, ms, t))

\* Mutant: the rows are added as CONFIRMED.
RECURSIVE NewMatches_Confirmed(_, _, _)
NewMatches_Confirmed(ms, t, cands) ==
    IF cands = <<>> THEN <<>>
    ELSE LET c == Head(cands)
             row == [tenant_id |-> t, invoice_id |-> c.invoice_id,
                     bank_transaction_id |-> c.bank_transaction_id,
                     score |-> c.score, status |-> CONFIRMED]
         IN (IF FindMatch(ms, t, c.invoice_id, c.bank_transaction_id) = 0
             THEN <<row>> ELSE <<>>)
            \o NewMatches_Confirmed(ms, t, Tail(cands))

\* The Match rows reconcile adds: one per candidate without an existing row.
RECURSIVE NewMatches(_, _, _)
NewMatches(ms, t, cands) ==
    IF cands = <<>> THEN <<>>
    ELSE LET c == Head(cands)
             row == [tenant_id |-> t, invoice_id |-> c.invoice_id,
                     bank_transaction_id |-> c.bank_transaction_id,
                     score |-> c.score, status |-> PROPOSED]
         IN (IF FindMatch(ms, t, c.invoice_id, c.bank_transaction_id) = 0
             THEN <<row>> ELSE <<>>)
            \o NewMatches(ms, t, Tail(cands))

\* Mutant: the index is not unique.
MatchUniqueOk_NoIndex(ms) == TRUE

\* The unique index ix_tenant_invoice_transaction.
MatchUniqueOk(ms) ==
    \A a, b \in 1..Len(ms) :
        (a # b /\ ms[a].tenant_id = ms[b].tenant_id /\ ms[a].invoice_id = ms[b].invoice_id)
            => ms[a].bank_transaction_id # ms[b].bank_transaction_id

\* ReconciliationService.reconcile as one request.
Reconcile(t) ==
    LET cands == Candidates(invoices, transactions, matches, t)
        added == NewMatches(matches, t, cands)
    IN IF MatchUniqueOk(matches \o added)
       THEN /\ matches' = matches \o added
            /\ last' = Outcome("reconcile", t, <<>>, "ok", cands, FALSE, Len(added))
            /\ UNCHANGED <<invoices, transactions, idem, sess>>
       ELSE /\ last' = Outcome("reconcile", t, <<>>, "PersistenceError", <<>>, FALSE, 0)
            /\ UNCHANGED <<invoices, transactions, matches, idem, sess>>

\* ------------------------------------------------------------------ confirm
\* Mutant: the lookup does not filter on the status.
FindProposed_AnyStatus(ms, t, mid) ==
    IF mid \in 1..Len(ms) /\ ms[mid].tenant_id = t THEN mid ELSE 0

\* The lookup of confirm_match: the row with this id, tenant and status
\* PROPOSED, 0 when there is none.
FindProposed(ms, t, mid) ==
    IF mid \in 1..Len(ms) /\ ms[mid].tenant_id = t /\ ms[mid].status = PROPOSED
    THEN mid ELSE 0

\* Mutant: the match is marked REJECTED.
ConfirmMatches_Rejected(ms, mid) == [ms EXCEPT ![mid].status = REJECTED]

\* The two writes of confirm_match on the match and its invoice.
ConfirmMatches(ms, mid) == [ms EXCEPT ![mid].status = CONFIRMED]

\* Mutant: the invoice is marked PAID.
ConfirmInvoices_Paid(invs, ms, mid) ==
    IF Stored(invs, ms[mid].invoice_id)
    THEN [invs EXCEPT ![ms[mid].invoice_id].status = PAID]
    ELSE invs

ConfirmInvoices(invs, ms, mid) ==
    IF Stored(invs, ms[mid].invoice_id)
    THEN [invs EXCEPT ![ms[mid].invoice_id].status = MATCHED]
    ELSE invs

\* ReconciliationService.confirm_match as one request.  The commit holds the
\* UPDATE of the match, and the UPDATE of the invoice when its status changes.
Confirm(t, mid) ==
    IF FindProposed(matches, t, mid) = 0
    THEN /\ last' = Outcome("confirm", t, mid, "NotFound", 0, FALSE, 0)
         /\ UNCHANGED <<invoices, transactions, matches, idem, sess>>
    ELSE /\ matches' = ConfirmMatches(matches, mid)
         /\ invoices' = ConfirmInvoices(invoices, matches, mid)
         /\ last' = Outcome("confirm", t, mid, "ok", mid, FALSE,
                             IF /\ Stored(invoices, matches[mid].invoice_id)
                                /\ invoices[matches[mid].invoice_id].status # MATCHED
                             THEN 2 ELSE 1)
         /\ UNCHANGED <<transactions, idem, sess>>

\* ----------------------------------------------------------- create invoice
\* Mutant: the lookup filters on the number only.
FindInvoiceNumber_AnyTenant(invs, t, number) ==
    LET hit == {i \in 1..Len(invs) : invs[i].invoice_number = number}
    IN IF hit = {} THEN 0 ELSE CHOOSE i \in hit : \A c \in hit : i <= c

\* The row with this (tenant, invoice_number), 0 when there is none.
FindInvoiceNumber(invs, t, number) ==
    LET hit == {i \in 1..Len(invs) : invs[i].tenant_id = t /\ invs[i].invoice_number = number}
    IN IF hit = {} THEN 0 ELSE CHOOSE i \in hit : \A c \in hit : i <= c

\* InvoiceService.create_invoice as one request.
CreateInvoice(t, data) ==
    IF data.invoice_number # <<>> /\ FindInvoiceNumber(invoices, t, data.invoice_number) # 0
    THEN /\ last' = Outcome("create_invoice", t, data, "Conflict", 0, FALSE, 0)
         /\ UNCHANGED <<invoices, transactions, matches, idem, sess>>
    ELSE /\ invoices' = Append(invoices,
                [tenant_id |-> t, invoice_number |-> data.invoice_number,
                 amount |-> data.amount, currency |-> data.currency,
                 invoice_date |-> data.invoice_date, description |-> data.description,
                 vendor_name |-> data.vendor_name, status |-> OPEN])
         /\ last' = Outcome("create_invoice", t, data, "ok", Len(invoices) + 1, FALSE, 1)
         /\ UNCHANGED <<transactions, matches, idem, sess>>

\* ----------------------------------------------------------- delete invoice
\* The table without the deleted rows at its end: the next row gets the
\* largest stored id plus one.
RECURSIVE TrimDeleted(_)
TrimDeleted(invs) ==
    IF invs = <<>> \/ invs[Len(invs)] # DeletedRow THEN invs
    ELSE TrimDeleted(SubSeq(invs, 1, Len(invs) - 1))

\* The table without the row i.
DeleteRow(invs, i) == TrimDeleted([invs EXCEPT ![i] = DeletedRow])

\* The matches rows of the invoice, which the unit of work detaches from
\* it before the DELETE.
MatchesOfInvoice(ms, i) == {m \in 1..Len(ms) : ms[m].invoice_id = i}

\* InvoiceService.delete_invoice as one request: the row is looked up by id
\* and tenant; the relationship Invoice.matches has no delete cascade, so
\* the flush first sets matches.invoice_id of its matches to NULL, which the
\* NOT NULL column refuses, and the request fails with nothing deleted.
DeleteInvoice(t, i) ==
    IF ~ (Stored(invoices, i) /\ invoices[i].tenant_id = t)
    THEN /\ last' = Outcome("delete_invoice", t, i, "NotFound", 0, FALSE, 0)
         /\ UNCHANGED <<invoices, transactions, matches, idem, sess>>
    ELSE IF MatchesOfInvoice(matches, i) # {}
    THEN /\ last' = Outcome("delete_invoice", t, i, "IntegrityError", 0, FALSE, 0)
         /\ UNCHANGED <<invoices, transactions, matches, idem, sess>>
    ELSE /\ invoices' = DeleteRow(invoices, i)
         /\ last' = Outcome("delete_invoice", t, i, "ok", i, FALSE, 1)
         /\ UNCHANGED <<transactions, matches, idem, sess>>

\* ------------------------------------------------------------------- inputs
\* Validated import items (BankTransactionCreate after its validators ran).
\* The number of decimals of an amount sent as "100.00", and the zone
\* designator of a timestamp sent without one.
TwoDecimals == 2
NoZone == ""

\* An item of a batch: amount is the value in cents and amount_scale the
\* number of decimals it was sent with ("100.00": 2, "100.0": 1, 100: 0);
\* posted_at is the instant and posted_at_zone the designator it was sent
\* with ("" or "Z").
Item(ext, posted, amount, currency, desc) ==
    [external_id |-> ext, posted_at |-> posted, amount |-> amount,
     currency |-> currency, description |-> desc,
     amount_scale |-> TwoDecimals, posted_at_zone |-> NoZone]

ItemX == Item("x", 0, 10000, "USD", <<"a", "b">>)
ItemN == Item(None, 0, 10000, "USD", <<"a", "b">>)
\* The external id of ItemX with other field values.
ItemX2 == Item("x", 2, 20000, "EUR", <<"b">>)

\* The import batches: empty, single items, a stored id after a fresh item
\* and the reverse, and one external id twice in a batch.
ImportPayloads ==
    { <<>>, <<ItemX>>, <<ItemN>>, <<ItemX2>>,
      <<ItemN, ItemX>>, <<ItemX, ItemN>>, <<ItemX, ItemX>> }
ImportKeys == {NoKey, "k1"}
\* Tenant 1 sends every batch, tenant 2 the single items tenant 1 also sends.
PayloadsOf(t) == IF t = 1 THEN ImportPayloads ELSE {<<ItemX>>, <<ItemN>>}

\* ------------------------------------------------------------ specification
NoSession == [pc |-> "idle"]
Procs == {1, 2}

Init ==
    /\ invoices = <<>>
    /\ transactions = <<>>
    /\ matches = <<>>
    /\ idem = <<>>
    /\ last = Outcome("none", 0, <<>>, "ok", <<>>, FALSE, 0)
    /\ sess = [p \in Procs |-> NoSession]

\* Imports only, with and without idempotency keys, by both tenants.
ImportAny ==
    \E t \in Tenants, k \in ImportKeys : \E p \in PayloadsOf(t) :
        Import(t, k, p) /\ Len(transactions') <= MaxTx

NextImport == ImportAny

SpecImport == Init /\ [][NextImport]_vars

\* Imports whose idempotency record may fail to persist.
ImportStoreFailsAny ==
    \E t \in Tenants, k \in ImportKeys : \E p \in PayloadsOf(t) :
        ImportStoreFails(t, k, p) /\ Len(transactions') <= MaxTx

NextImportFaulty == ImportAny \/ ImportStoreFailsAny

SpecImportFaulty == Init /\ [][NextImportFaulty]_vars

\* Validated invoice inputs (InvoiceCreate after its validators ran).
InvoiceData(number, amount, currency, date, desc, vendor) ==
    [invoice_number |-> number, amount |-> amount, currency |-> currency,
     invoice_date |-> date, description |-> desc, vendor_name |-> vendor]

\* 100.00 USD on day 0, described "ab".
InvA == InvoiceData(<<>>, 10000, "USD", <<0>>, <<"a", "b">>, <<>>)
\* 100.00 EUR, one day later, numbered "b".
InvE == InvoiceData(<<"b">>, 10000, "EUR", <<2>>, <<>>, <<>>)

\* Same amount as InvA two days later, no description.
ItemL == Item(None, 4, 10000, "USD", <<>>)
\* One cent off InvA, same day, same description: below the threshold.
ItemC == Item(None, 0, 10001, "USD", <<"a", "b">>)

ReconInvoiceInputs == {<<1, InvA>>, <<1, InvE>>, <<2, InvA>>}
ReconImportInputs ==
    {<<1, <<ItemX>>>>, <<1, <<ItemL>>>>, <<1, <<ItemC>>>>, <<2, <<ItemX>>>>}

CreateInvoiceAny ==
    \E in \in ReconInvoiceInputs :
        CreateInvoice(in[1], in[2]) /\ Len(invoices') + Len(transactions) <= MaxRows

ImportRecon ==
    \E in \in ReconImportInputs :
        Import(in[1], NoKey, in[2]) /\ Len(invoices) + Len(transactions') <= MaxRows

ReconcileAny == \E t \in Tenants : Reconcile(t)

ConfirmAny == \E t \in Tenants, mid \in 1..(Len(matches) + 1) : Confirm(t, mid)

DeleteInvoiceAny == \E t \in Tenants, i \in 1..(Len(invoices) + 1) : DeleteInvoice(t, i)

Next == CreateInvoiceAny \/ ImportRecon \/ ReconcileAny \/ ConfirmAny \/ DeleteInvoiceAny

Spec == Init /\ [][Next]_vars

\* The same requests, and imports that name the external id of ItemX with
\* other field values.
ImportReuseAny ==
    Import(1, NoKey, <<ItemX2>>) /\ Len(invoices) + Len(transactions') <= MaxRows

NextReuse == Next \/ ImportReuseAny

SpecReuse == Init /\ [][NextReuse]_vars

\* ------------------------------------------------------ concurrent requests
\* Two request handlers, each with its own database session, take the steps
\* of confirm_match and reconcile one query or commit at a time.  A session
\* keeps what its request read, and afterwards what its request returned.
Idle(p) == sess[p].pc \in {"idle", "done"}

Done(op, t, arg, status, result) ==
    [pc |-> "done", op |-> op, tenant |-> t, arg |-> arg,
     status |-> status, result |-> result]

\* confirm_match, the SELECT of the match: NotFound ends the request, a hit
\* is kept in the session as the loaded Match.
ConfirmRead(p, t, mid) ==
    /\ Idle(p)
    /\ IF FindProposed(matches, t, mid) = 0
       THEN /\ sess' = [sess EXCEPT ![p] = Done("confirm", t, mid, "NotFound", 0)]
            /\ last' = Outcome("confirm", t, mid, "NotFound", 0, FALSE, 0)
       ELSE /\ sess' = [sess EXCEPT ![p] =
                           [pc |-> "confirm_invoice", op |-> "confirm", tenant |-> t,
                            arg |-> mid]]
            /\ UNCHANGED last
    /\ UNCHANGED <<invoices, transactions, matches, idem>>

\* confirm_match, the SELECT of the invoice by the id of the match, with no
\* tenant in the filter.  The session holds the Invoice object: <<>> when no
\* row has the id, else the id with the status read.
ConfirmReadInvoice(p) ==
    LET s == sess[p]
        i == matches[s.arg].invoice_id
    IN /\ s.pc = "confirm_invoice"
       /\ sess' = [sess EXCEPT ![p] =
                      [pc |-> "confirm_commit", op |-> "confirm", tenant |-> s.tenant,
                       arg |-> s.arg,
                       invoice |-> IF Stored(invoices, i)
                                   THEN <<[id |-> i, status |-> invoices[i].status]>>
                                   ELSE <<>>]]
       /\ UNCHANGED <<invoices, transactions, matches, idem, last>>

\* The unit of work writes the loaded invoice when its status changes.
WritesInvoice(inv) == inv # <<>> /\ inv[1].status # MATCHED

\* confirm_match, the writes and the commit: UPDATE of the loaded match by
\* its primary key and, when an invoice was loaded and was not MATCHED,
\* UPDATE of the invoices row that has its id now.  An UPDATE that finds no
\* row raises StaleDataError: the transaction is rolled back and the
\* exception leaves the handler.
ConfirmCommit(p) ==
    LET s == sess[p]
    IN /\ s.pc = "confirm_commit"
       /\ IF WritesInvoice(s.invoice) /\ ~ Stored(invoices, s.invoice[1].id)
          THEN /\ sess' = [sess EXCEPT ![p] =
                              Done("confirm", s.tenant, s.arg, "PersistenceError", 0)]
               /\ last' = Outcome("confirm", s.tenant, s.arg, "PersistenceError", 0,
                                  FALSE, 0)
               /\ UNCHANGED <<invoices, matches>>
          ELSE /\ matches' = ConfirmMatches(matches, s.arg)
               /\ invoices' = IF WritesInvoice(s.invoice)
                              THEN [invoices EXCEPT ![s.invoice[1].id].status = MATCHED]
                              ELSE invoices
               /\ sess' = [sess EXCEPT ![p] =
                              [pc |-> "confirm_refresh", op |-> "confirm",
                               tenant |-> s.tenant, arg |-> s.arg,
                               writes |-> IF WritesInvoice(s.invoice) THEN 2 ELSE 1]]
               /\ UNCHANGED last
       /\ UNCHANGED <<transactions, idem>>

\* confirm_match, db.refresh of the match (no request deletes a Match row)
\* and the answer.
ConfirmRefresh(p) ==
    LET s == sess[p]
    IN /\ s.pc = "confirm_refresh"
       /\ sess' = [sess EXCEPT ![p] = Done("confirm", s.tenant, s.arg, "ok", s.arg)]
       /\ last' = Outcome("confirm", s.tenant, s.arg, "ok", s.arg, FALSE, s.writes)
       /\ UNCHANGED <<invoices, transactions, matches, idem>>

\* confirm_match when the store fails the commit: the transaction is rolled
\* back as a whole and the exception leaves the handler.
ConfirmCommitFails(p) ==
    /\ sess[p].pc = "confirm_commit"
    /\ sess' = [sess EXCEPT ![p] =
                   Done("confirm", sess[p].tenant, sess[p].arg, "PersistenceError", 0)]
    /\ last' = Outcome("confirm", sess[p].tenant, sess[p].arg, "PersistenceError", 0, FALSE, 0)
    /\ UNCHANGED <<invoices, transactions, matches, idem>>

\* The Invoice objects a session holds after a SELECT: the rows as they were
\* read, under their ids.
LoadedInvoices(invs, ids) ==
    [i \in 1..Len(invs) |->
        IF \E x \in 1..Len(ids) : ids[x] = i THEN invs[i] ELSE DeletedRow]

\* reconcile, the first SELECT (get_open_invoices): the session keeps the
\* loaded OPEN invoices.
ReconcileReadInvoices(p, t) ==
    /\ Idle(p)
    /\ sess' = [sess EXCEPT ![p] =
                   [pc |-> "reconcile_transactions", op |-> "reconcile", tenant |-> t,
                    open |-> GetOpenInvoices(invoices, t),
                    loaded |-> LoadedInvoices(invoices, GetOpenInvoices(invoices, t))]]
    /\ UNCHANGED <<invoices, transactions, matches, idem, last>>

\* The position after the scoring loop: the existence queries when there
\* are candidates, the commit when there are none.
AfterScoring(cands) == IF cands = <<>> THEN "reconcile_commit" ELSE "reconcile_check"

\* reconcile, the second SELECT (get_unmatched_transactions) and the scoring
\* loop over the Invoice objects loaded before, as they were read, and the
\* transactions loaded now.
ReconcileReadTransactions(p) ==
    /\ sess[p].pc = "reconcile_transactions"
    /\ LET cands == CandidatesOf(sess[p].loaded, transactions, sess[p].open,
                                 GetUnmatchedTransactions(transactions, matches,
                                                          sess[p].tenant))
       IN sess' = [sess EXCEPT ![p] =
                      [pc |-> AfterScoring(cands), op |-> "reconcile",
                       tenant |-> sess[p].tenant, candidates |-> cands,
                       pending |-> cands, added |-> <<>>]]
    /\ UNCHANGED <<invoices, transactions, matches, idem, last>>

\* reconcile, one round of the insert loop: the existence query of the next
\* candidate and, when no row is found, the new PROPOSED row of the session.
ReconcileCheck(p) ==
    /\ sess[p].pc = "reconcile_check"
    /\ sess' = [sess EXCEPT ![p] =
                   [pc |-> AfterScoring(Tail(sess[p].pending)), op |-> "reconcile",
                    tenant |-> sess[p].tenant, candidates |-> sess[p].candidates,
                    pending |-> Tail(sess[p].pending),
                    added |-> sess[p].added
                                \o NewMatches(matches, sess[p].tenant,
                                              <<Head(sess[p].pending)>>)]]
    /\ UNCHANGED <<invoices, transactions, matches, idem, last>>

\* reconcile, the INSERTs and the commit under the unique index: a duplicate
\* pair raises IntegrityError, which reconcile does not catch.
ReconcileCommit(p) ==
    /\ sess[p].pc = "reconcile_commit"
    /\ IF MatchUniqueOk(matches \o sess[p].added)
       THEN /\ matches' = matches \o sess[p].added
            /\ sess' = [sess EXCEPT ![p] =
                           Done("reconcile", sess[p].tenant, <<>>, "ok", sess[p].candidates)]
            /\ last' = Outcome("reconcile", sess[p].tenant, <<>>, "ok",
                               sess[p].candidates, FALSE, Len(sess[p].added))
       ELSE /\ matches' = matches
            /\ sess' = [sess EXCEPT ![p] =
                           Done("reconcile", sess[p].tenant, <<>>, "PersistenceError", <<>>)]
            /\ last' = Outcome("reconcile", sess[p].tenant, <<>>, "PersistenceError",
                               <<>>, FALSE, 0)
    /\ UNCHANGED <<invoices, transactions, idem>>

\* ------------------------------------------------------- concurrent imports
\* Two import requests, each with its own database session, take the steps of
\* import_transactions one round of queries or one commit at a time.  Each
\* session serves one request; raced says that the other request was under
\* way when this one began.
ImportSession(pc, t, k, p, refs, raced, ids, writes, found) ==
    [pc |-> pc, op |-> "import", tenant |-> t, arg |-> <<k, p>>, refs |-> refs,
     raced |-> raced, ids |-> ids, writes |-> writes, found |-> found]

\* The request has returned: status, result and replayed flag of the answer.
ImportDone(s, status, result, replayed) ==
    [pc |-> "done", op |-> "import", tenant |-> s.tenant, arg |-> s.arg,
     refs |-> s.refs, raced |-> s.raced, writes |-> s.writes,
     status |-> status, result |-> result, replayed |-> replayed]

ImportLast(s, status, result, replayed) ==
    Outcome("import", s.tenant, s.arg, status, result, replayed, s.writes)

InFlight(q) == sess[q].pc \notin {"idle", "done"}

\* import_transactions, the key check: get_payload_hash reads the record of
\* (tenant, key); a stored hash that is not the hash of the batch ends the
\* request with ValueError (HTTP 409).  A request without a key begins with
\* the loop.
ImportKeyCheck(q, t, k, p) ==
    LET raced == \E o \in Procs \ {q} : InFlight(o)
        s(pc) == ImportSession(pc, t, k, p, <<>>, raced, <<>>, 0, 0)
    IN /\ Idle(q)
       /\ IF k = NoKey
          THEN sess' = [sess EXCEPT ![q] = s("import_lookup")] /\ UNCHANGED last
          ELSE IF KeyReused(GetPayloadHash(idem, t, k), HashPayload(p))
          THEN /\ sess' = [sess EXCEPT ![q] = ImportDone(s("done"), "Conflict", <<>>, FALSE)]
               /\ last' = ImportLast(s("done"), "Conflict", <<>>, FALSE)
          ELSE sess' = [sess EXCEPT ![q] = s("import_result")] /\ UNCHANGED last
       /\ UNCHANGED <<invoices, transactions, matches, idem>>

\* import_transactions, get_result and the replay query: the record of
\* (tenant, key) is read again, and when its id list is not empty and every
\* id resolves to a row of the tenant those rows are the answer.
ImportGetResult(q) ==
    LET s == sess[q]
        r == FindIdem(idem, s.tenant, s.arg[1])
        stored_ids == IF r # 0 THEN idem[r].transaction_ids ELSE <<>>
        replay == QueryByIds(transactions, stored_ids, s.tenant)
    IN /\ s.pc = "import_result"
       /\ IF stored_ids # <<>> /\ Len(replay) = Len(stored_ids)
          THEN /\ sess' = [sess EXCEPT ![q] = ImportDone(s, "ok", replay, TRUE)]
               /\ last' = ImportLast(s, "ok", replay, TRUE)
          ELSE sess' = [sess EXCEPT ![q] = [s EXCEPT !.pc = "import_lookup"]]
               /\ UNCHANGED last
       /\ UNCHANGED <<invoices, transactions, matches, idem>>

\* The items the next round of the loop handles after n items: up to the
\* item before the second of the remaining items that carry an external id.
LookupEnd(p, n) ==
    LET ided == {j \in (n + 1)..Len(p) : p[j].external_id # None}
        later == {j \in ided : \E i \in ided : i < j}
    IN IF later = {} THEN Len(p)
       ELSE (CHOOSE j \in later : \A i \in later : j <= i) - 1

\* import_transactions, one existence query of the loop, with the items
\* around it that carry no external id.  After the last item a request with
\* new rows goes on to the commit, one with a key and no new row to the
\* second reading of the hash, and one without a key returns.
ImportLookup(q) ==
    LET s == sess[q]
        t == s.tenant
        p == s.arg[2]
        n == Len(s.refs)
        e == LookupEnd(p, n)
        refs == s.refs \o ImportRefs(transactions, t, SubSeq(p, n + 1, e))
        read == [s EXCEPT !.refs = refs, !.ids = CreatedIds(refs, 0)]
    IN /\ s.pc = "import_lookup"
       /\ IF e < Len(p)
          THEN sess' = [sess EXCEPT ![q] = read] /\ UNCHANGED last
          ELSE IF NewRows(t, p, refs) # <<>>
          THEN sess' = [sess EXCEPT ![q] = [read EXCEPT !.pc = "import_commit"]]
               /\ UNCHANGED last
          ELSE IF s.arg[1] # NoKey
          THEN sess' = [sess EXCEPT ![q] = [read EXCEPT !.pc = "import_recheck"]]
               /\ UNCHANGED last
          ELSE /\ sess' = [sess EXCEPT ![q] = ImportDone(read, "ok", read.ids, FALSE)]
               /\ last' = ImportLast(read, "ok", read.ids, FALSE)
       /\ UNCHANGED <<invoices, transactions, matches, idem>>

\* import_transactions, db.add of the new rows and the commit: under the
\* unique index a row stored meanwhile raises IntegrityError, the rollback
\* drops every new row and ValueError leaves the service (HTTP 409).
ImportCommit(q) ==
    LET s == sess[q]
        rows == NewRows(s.tenant, s.arg[2], s.refs)
        ids == CreatedIds(s.refs, Len(transactions))
        stored == [s EXCEPT !.ids = ids, !.writes = Len(rows)]
    IN /\ s.pc = "import_commit"
       /\ transactions' = CommitRows(transactions, rows)
       /\ IF Len(transactions') < Len(transactions) + Len(rows)
          THEN /\ sess' = [sess EXCEPT ![q] = ImportDone(s, "PersistenceError", <<>>, FALSE)]
               /\ last' = ImportLast(s, "PersistenceError", <<>>, FALSE)
          ELSE IF s.arg[1] # NoKey
          THEN /\ sess' = [sess EXCEPT ![q] = [stored EXCEPT !.pc = "import_store"]]
               /\ UNCHANGED last
          ELSE /\ sess' = [sess EXCEPT ![q] = ImportDone(stored, "ok", ids, FALSE)]
               /\ last' = ImportLast(stored, "ok", ids, FALSE)
       /\ UNCHANGED <<invoices, matches, idem>>

\* import_transactions with a key and no new row, the second reading of the
\* hash: a reused key raises, and an empty batch leaves a stored record
\* alone.
ImportRecheck(q) ==
    LET s == sess[q]
        stored == GetPayloadHash(idem, s.tenant, s.arg[1])
    IN /\ s.pc = "import_recheck"
       /\ IF s.refs # <<>> /\ KeyReused(stored, HashPayload(s.arg[2]))
          THEN /\ sess' = [sess EXCEPT ![q] = ImportDone(s, "Conflict", <<>>, FALSE)]
               /\ last' = ImportLast(s, "Conflict", <<>>, FALSE)
          ELSE IF s.refs = <<>> /\ stored # NoHash
          THEN /\ sess' = [sess EXCEPT ![q] = ImportDone(s, "ok", s.ids, FALSE)]
               /\ last' = ImportLast(s, "ok", s.ids, FALSE)
          ELSE sess' = [sess EXCEPT ![q] = [s EXCEPT !.pc = "import_store"]]
               /\ UNCHANGED last
       /\ UNCHANGED <<invoices, transactions, matches, idem>>

\* store_result, the query for the row of (tenant, key).
ImportStoreRead(q) ==
    LET s == sess[q]
    IN /\ s.pc = "import_store"
       /\ sess' = [sess EXCEPT ![q] =
                      [s EXCEPT !.pc = "import_store_commit",
                                !.found = FindIdem(idem, s.tenant, s.arg[1])]]
       /\ UNCHANGED <<invoices, transactions, matches, idem, last>>

\* store_result's write and the commit after it: UPDATE of the row found, or
\* INSERT; an INSERT the index uq_tenant_idempotency_key rejects is rolled
\* back and the exception swallowed.  The answer is the same in each case:
\* replayed is True for the request that found every item stored.
ImportStoreCommit(q) ==
    LET s == sess[q]
        t == s.tenant
        k == s.arg[1]
        h == HashPayload(s.arg[2])
        replayed == s.writes = 0 /\ s.refs # <<>>
    IN /\ s.pc = "import_store_commit"
       /\ idem' = IF s.found # 0
                  THEN [idem EXCEPT ![s.found].payload_hash = h,
                                    ![s.found].transaction_ids = s.ids]
                  ELSE IF FindIdem(idem, t, k) # 0 THEN idem
                  ELSE StoreResult(idem, t, k, h, s.ids)
       /\ sess' = [sess EXCEPT ![q] = ImportDone(s, "ok", s.ids, replayed)]
       /\ last' = ImportLast(s, "ok", s.ids, replayed)
       /\ UNCHANGED <<invoices, transactions, matches>>

\* The batches of the concurrent requests: no external id twice in a batch.
RaceTenants == {1}
RacePayloads == {<<ItemX>>, <<ItemN>>, <<ItemN, ItemX>>}

\* An import served before the two concurrent requests begin.
ImportBefore ==
    /\ transactions = <<>>
    /\ \A q \in Procs : sess[q].pc = "idle"
    /\ \E k \in ImportKeys : Import(1, k, <<ItemX>>)

ImportKeyCheckAny ==
    \E q \in Procs, t \in RaceTenants, k \in ImportKeys, p \in RacePayloads :
        sess[q].pc = "idle" /\ ImportKeyCheck(q, t, k, p)
ImportGetResultAny == \E q \in Procs : ImportGetResult(q)
ImportLookupAny == \E q \in Procs : ImportLookup(q)
ImportCommitAny == \E q \in Procs : ImportCommit(q)
ImportRecheckAny == \E q \in Procs : ImportRecheck(q)
ImportStoreReadAny == \E q \in Procs : ImportStoreRead(q)
ImportStoreCommitAny == \E q \in Procs : ImportStoreCommit(q)

NextImportConc ==
    \/ ImportBefore
    \/ ImportKeyCheckAny
    \/ ImportGetResultAny
    \/ ImportLookupAny
    \/ ImportCommitAny
    \/ ImportRecheckAny
    \/ ImportStoreReadAny
    \/ ImportStoreCommitAny

SpecImportConc == Init /\ [][NextImportConc]_vars

\* ------------------------------------------------------- concurrent creates
\* Create and delete requests, each with its own database session, take the
\* steps of create_invoice and delete_invoice one query or commit at a time.
\* The unique constraint uq_tenant_invoice_number (NULL numbers never collide).
InvoiceUniqueOk(invs) ==
    \A a, b \in 1..Len(invs) :
        (a # b /\ invs[a].invoice_number # <<>> /\ invs[a].tenant_id = invs[b].tenant_id)
            => invs[a].invoice_number # invs[b].invoice_number

\* The Invoice row create_invoice builds.
NewInvoice(t, data) ==
    [tenant_id |-> t, invoice_number |-> data.invoice_number,
     amount |-> data.amount, currency |-> data.currency,
     invoice_date |-> data.invoice_date, description |-> data.description,
     vendor_name |-> data.vendor_name, status |-> OPEN]

\* create_invoice, the existence query: a number the tenant has stored ends
\* the request with ValueError (HTTP 409).
CreateRead(q, t, data) ==
    /\ Idle(q)
    /\ IF data.invoice_number # <<>> /\ FindInvoiceNumber(invoices, t, data.invoice_number) # 0
       THEN /\ sess' = [sess EXCEPT ![q] = Done("create_invoice", t, data, "Conflict", 0)]
            /\ last' = Outcome("create_invoice", t, data, "Conflict", 0, FALSE, 0)
       ELSE /\ sess' = [sess EXCEPT ![q] =
                           [pc |-> "create_commit", op |-> "create_invoice",
                            tenant |-> t, arg |-> data]]
            /\ UNCHANGED last
    /\ UNCHANGED <<invoices, transactions, matches, idem>>

\* create_invoice, db.add and the commit.  When the constraint rejects the
\* row the rollback stores nothing; the IntegrityError becomes ValueError
\* (HTTP 409) if the driver's message names the constraint and leaves the
\* handler as it is otherwise.  A stored row has its id in the session.
CreateCommit(q) ==
    LET s == sess[q]
    IN /\ s.pc = "create_commit"
       /\ IF InvoiceUniqueOk(Append(invoices, NewInvoice(s.tenant, s.arg)))
          THEN /\ invoices' = Append(invoices, NewInvoice(s.tenant, s.arg))
               /\ sess' = [sess EXCEPT ![q] =
                              [pc |-> "create_refresh", op |-> "create_invoice",
                               tenant |-> s.tenant, arg |-> s.arg,
                               id |-> Len(invoices) + 1]]
               /\ UNCHANGED last
          ELSE /\ invoices' = invoices
               /\ \E status \in {"Conflict", "PersistenceError"} :
                     /\ sess' = [sess EXCEPT ![q] =
                                    Done("create_invoice", s.tenant, s.arg, status, 0)]
                     /\ last' = Outcome("create_invoice", s.tenant, s.arg, status, 0, FALSE, 0)
       /\ UNCHANGED <<transactions, matches, idem>>

\* The request has returned after its commit: the status, the id and the
\* row the answer is made of.
CreateDone(s, status, result, row) ==
    [pc |-> "done", op |-> "create_invoice", tenant |-> s.tenant, arg |-> s.arg,
     status |-> status, result |-> result, row |-> row]

\* create_invoice, db.refresh: the SELECT by primary key of the row the
\* session inserted.  The answer is the row the table has under this id
\* now; without one the refresh raises InvalidRequestError, which nothing
\* catches (HTTP 500), the row having been committed.
CreateRefresh(q) ==
    LET s == sess[q]
    IN /\ s.pc = "create_refresh"
       /\ IF Stored(invoices, s.id)
          THEN /\ sess' = [sess EXCEPT ![q] = CreateDone(s, "ok", s.id, <<invoices[s.id]>>)]
               /\ last' = Outcome("create_invoice", s.tenant, s.arg, "ok", s.id, FALSE, 1)
          ELSE /\ sess' = [sess EXCEPT ![q] = CreateDone(s, "PersistenceError", 0, <<>>)]
               /\ last' = Outcome("create_invoice", s.tenant, s.arg, "PersistenceError",
                                  0, FALSE, 1)
       /\ UNCHANGED <<invoices, transactions, matches, idem>>

\* delete_invoice, the SELECT by id and tenant: without a row the request
\* ends (HTTP 404), a row found is kept in the session as the loaded Invoice.
DeleteRead(q, t, i) ==
    /\ Idle(q)
    /\ IF Stored(invoices, i) /\ invoices[i].tenant_id = t
       THEN /\ sess' = [sess EXCEPT ![q] =
                           [pc |-> "delete_flush", op |-> "delete_invoice",
                            tenant |-> t, arg |-> i]]
            /\ UNCHANGED last
       ELSE /\ sess' = [sess EXCEPT ![q] = Done("delete_invoice", t, i, "NotFound", 0)]
            /\ last' = Outcome("delete_invoice", t, i, "NotFound", 0, FALSE, 0)
    /\ UNCHANGED <<invoices, transactions, matches, idem>>

\* delete_invoice, the flush of db.delete: the SELECT that loads
\* Invoice.matches, the rows the unit of work has to detach.
DeleteLoadMatches(q) ==
    LET s == sess[q]
    IN /\ s.pc = "delete_flush"
       /\ sess' = [sess EXCEPT ![q] =
                      [pc |-> "delete_commit", op |-> "delete_invoice",
                       tenant |-> s.tenant, arg |-> s.arg,
                       children |-> MatchesOfInvoice(matches, s.arg)]]
       /\ UNCHANGED <<invoices, transactions, matches, idem, last>>

\* delete_invoice, the writes and the commit: the loaded matches are
\* detached, which the NOT NULL column refuses, and without one the row is
\* deleted by primary key alone.  The DELETE takes whatever row has the id
\* now, and one that finds no row is no error: the request answers 204 in
\* both cases.  A match stored since the matches were loaded stays.
DeleteCommit(q) ==
    LET s == sess[q]
    IN /\ s.pc = "delete_commit"
       /\ IF s.children # {}
          THEN /\ invoices' = invoices
               /\ sess' = [sess EXCEPT ![q] =
                              Done("delete_invoice", s.tenant, s.arg, "IntegrityError", 0)]
               /\ last' = Outcome("delete_invoice", s.tenant, s.arg, "IntegrityError",
                                  0, FALSE, 0)
          ELSE /\ invoices' = IF Stored(invoices, s.arg) THEN DeleteRow(invoices, s.arg)
                              ELSE invoices
               /\ sess' = [sess EXCEPT ![q] =
                              Done("delete_invoice", s.tenant, s.arg, "ok", s.arg)]
               /\ last' = Outcome("delete_invoice", s.tenant, s.arg, "ok", s.arg, FALSE,
                                  IF Stored(invoices, s.arg) THEN 1 ELSE 0)
       /\ UNCHANGED <<transactions, matches, idem>>

\* Most invoices the concurrent creates may store.
MaxInvoices == 2

\* 100.00 USD, numbered "b" like InvE.
InvB == InvoiceData(<<"b">>, 10000, "USD", <<>>, <<>>, <<>>)
\* Tenant 1 creates with and without a number, tenant 2 with the number.
CreateInputs == {<<1, InvA>>, <<1, InvB>>, <<2, InvB>>}

CreateReadAny ==
    \E q \in Procs, in \in CreateInputs :
        Len(invoices) < MaxInvoices /\ CreateRead(q, in[1], in[2])
CreateCommitAny == \E q \in Procs : CreateCommit(q)
CreateRefreshAny == \E q \in Procs : CreateRefresh(q)
DeleteReadAny ==
    \E q \in Procs, t \in Tenants, i \in 1..(Len(invoices) + 1) : DeleteRead(q, t, i)
DeleteLoadMatchesAny == \E q \in Procs : DeleteLoadMatches(q)
DeleteCommitAny == \E q \in Procs : DeleteCommit(q)

NextCreateConc ==
    \/ CreateReadAny
    \/ CreateCommitAny
    \/ CreateRefreshAny
    \/ DeleteReadAny
    \/ DeleteLoadMatchesAny
    \/ DeleteCommitAny

SpecCreateConc == Init /\ [][NextCreateConc]_vars

\* ------------------------------------------- concurrent requests, together
\* Create, import, reconcile and confirm requests of one tenant, each taken
\* one query or commit at a time.
\* Most rows the invoices and the bank_transactions table may hold together
\* in the concurrent runs.
MaxConcRows == 3

\* ItemL under an external id, so that a repeated import stores no new row.
ItemXL == Item("l", 4, 10000, "USD", <<>>)

\* InvA under a number, so that a repeated create stores no new row.
InvAB == InvoiceData(<<"b">>, 10000, "USD", <<0>>, <<"a", "b">>, <<>>)

ConcInvoiceInputs == {<<1, InvAB>>}
ConcImportInputs == {<<1, <<ItemX>>>>, <<1, <<ItemXL>>>>}
ConcTenants == {1}

\* A create or an import request begins while the tables have room.
CreateReadConc ==
    \E q \in Procs, in \in ConcInvoiceInputs :
        /\ Len(invoices) + Len(transactions) < MaxConcRows
        /\ CreateRead(q, in[1], in[2])

ImportKeyCheckConc ==
    \E q \in Procs, in \in ConcImportInputs :
        /\ Len(invoices) + Len(transactions) < MaxConcRows
        /\ ImportKeyCheck(q, in[1], NoKey, in[2])

ConfirmReadAny ==
    \E p \in Procs, t \in ConcTenants, mid \in 1..(Len(matches) + 1) : ConfirmRead(p, t, mid)
ConfirmReadInvoiceAny == \E p \in Procs : ConfirmReadInvoice(p)
ConfirmCommitAny == \E p \in Procs : ConfirmCommit(p)
ConfirmRefreshAny == \E p \in Procs : ConfirmRefresh(p)
DeleteReadConc ==
    \E q \in Procs, t \in ConcTenants, i \in 1..(Len(invoices) + 1) : DeleteRead(q, t, i)
ConfirmCommitFailsAny == \E p \in Procs : ConfirmCommitFails(p)
ReconcileReadInvoicesAny ==
    \E p \in Procs, t \in ConcTenants : ReconcileReadInvoices(p, t)
ReconcileReadTransactionsAny == \E p \in Procs : ReconcileReadTransactions(p)
ReconcileCheckAny == \E p \in Procs : ReconcileCheck(p)
ReconcileCommitAny == \E p \in Procs : ReconcileCommit(p)

NextConc ==
    \/ CreateReadConc
    \/ CreateCommitAny
    \/ CreateRefreshAny
    \/ ImportKeyCheckConc
    \/ ImportLookupAny
    \/ ImportCommitAny
    \/ DeleteReadConc
    \/ DeleteLoadMatchesAny
    \/ DeleteCommitAny
    \/ ConfirmReadAny
    \/ ConfirmReadInvoiceAny
    \/ ConfirmCommitAny
    \/ ConfirmCommitFailsAny
    \/ ConfirmRefreshAny
    \/ ReconcileReadInvoicesAny
    \/ ReconcileReadTransactionsAny
    \/ ReconcileCheckAny
    \/ ReconcileCommitAny

SpecConc == Init /\ [][NextConc]_vars

\* ------------------------------------------------------------- two tenants
\* Tenant 1 creates and deletes an invoice, imports, reconciles and confirms,
\* and tenant 2 creates the same invoice; the requests of two sessions are
\* taken one query or commit at a time.
\* Most rows the invoices and the bank_transactions table may hold together
\* when a request of these runs begins.
MaxTenantRows == 2

TenantInvoiceInputs == {<<1, InvAB>>, <<2, InvAB>>}
TenantImportInputs == {<<1, <<ItemX>>>>}

CreateReadTenant ==
    \E q \in Procs, in \in TenantInvoiceInputs :
        /\ Len(invoices) + Len(transactions) < MaxTenantRows
        /\ CreateRead(q, in[1], in[2])

ImportKeyCheckTenant ==
    \E q \in Procs, in \in TenantImportInputs :
        /\ Len(invoices) + Len(transactions) < MaxTenantRows
        /\ ImportKeyCheck(q, in[1], NoKey, in[2])

NextTenants ==
    \/ CreateReadTenant
    \/ CreateCommitAny
    \/ CreateRefreshAny
    \/ ImportKeyCheckTenant
    \/ ImportLookupAny
    \/ ImportCommitAny
    \/ DeleteReadConc
    \/ DeleteLoadMatchesAny
    \/ DeleteCommitAny
    \/ ConfirmReadAny
    \/ ConfirmReadInvoiceAny
    \/ ConfirmCommitAny
    \/ ConfirmRefreshAny
    \/ ReconcileReadInvoicesAny
    \/ ReconcileReadTransactionsAny
    \/ ReconcileCheckAny
    \/ ReconcileCommitAny

SpecTenants == Init /\ [][NextTenants]_vars

\* ------------------------------------------------------------------ scoring
\* The scorer applied to one stored invoice and one stored transaction of a
\* tenant, as the explain route does after loading both by id and tenant.
Score(t, i, b) ==
    /\ IF /\ i \in 1..Len(invoices) /\ invoices[i].tenant_id = t
          /\ b \in 1..Len(transactions) /\ transactions[b].tenant_id = t
       THEN last' = Outcome("score", t, <<i, b>>, "ok",
                            CalculateMatchScore(invoices[i], transactions[b]), FALSE, 0)
       ELSE last' = Outcome("score", t, <<i, b>>, "NotFound", <<>>, FALSE, 0)
    /\ UNCHANGED <<invoices, transactions, matches, idem, sess>>

\* Latest posting time of the scored transactions, in half days.
MaxPostedAt == 14
\* Largest distance, in cents, between the scored amounts.
MaxAmountDiff == 2

\* The scored invoices: 100.00, undated or dated day 3 or day 3.5, with and
\* without number, description and vendor.
ScoreInvoices ==
    {InvoiceData(number, 10000, "USD", date, desc, vendor) :
        number \in {<<>>, <<"b">>},
        date \in {<<>>, <<6>>, <<7>>},
        desc \in {<<>>, <<"a", "b">>, <<"a", "b", "c">>},
        vendor \in {<<>>, <<"a">>}}

\* A description long enough for the matcher to drop its popular
\* characters: "abab...ab" of AutoJunkLen characters.
LongText == [x \in 1..AutoJunkLen |-> IF x % 2 = 1 THEN "a" ELSE "b"]

\* The scored transactions: up to MaxAmountDiff cents around 100.00, posted
\* in any half day up to MaxPostedAt, with and without description; and
\* transactions of 100.00 with the long description.
ScoreTransactions ==
    {Item(None, posted, amount, "USD", desc) :
        posted \in 0..MaxPostedAt,
        amount \in (10000 - MaxAmountDiff)..(10000 + MaxAmountDiff),
        desc \in {<<>>, <<"a", "b">>, <<"A">>, <<"a", "b", "c">>}}
    \cup {Item(None, posted, 10000, "USD", LongText) : posted \in 0..MaxPostedAt}

\* One stored OPEN invoice and one stored transaction of tenant 1.
InitScore ==
    /\ \E data \in ScoreInvoices :
          invoices = <<[tenant_id |-> 1, invoice_number |-> data.invoice_number,
                        amount |-> data.amount, currency |-> data.currency,
                        invoice_date |-> data.invoice_date,
                        description |-> data.description,
                        vendor_name |-> data.vendor_name, status |-> OPEN]>>
    /\ \E item \in ScoreTransactions :
          transactions = NewRows(1, <<item>>, <<0>>)
    /\ matches = <<>>
    /\ idem = <<>>
    /\ last = Outcome("none", 0, <<>>, "ok", <<>>, FALSE, 0)
    /\ sess = [p \in Procs |-> NoSession]

ScoreAny ==
    \E t \in Tenants, i \in 1..Len(invoices), b \in 1..Len(transactions) : Score(t, i, b)

NextScore == ScoreAny

SpecScore == InitScore /\ [][NextScore]_vars

\* ------------------------------------------------------------- explanation
\* AIService._get_deterministic_explanation: "Match score: <score>/100. "
\* followed by the factors, as the list of its parts.
DeterministicExplanation(inv, tx, score) ==
    LET d == Abs(inv.amount - tx.amount)
        amount == IF d = 0 THEN <<"The amounts match exactly", 0>>
                  ELSE IF d <= 1 THEN <<"The amounts are within 1 cent", d>>
                  ELSE <<"Amount difference", d>>
        dates == IF inv.invoice_date = <<>> THEN <<>>
                 ELSE IF DateDiffDays(inv.invoice_date[1], tx.posted_at) = 0
                 THEN <<<<"dates match exactly", 0>>>>
                 ELSE IF DateDiffDays(inv.invoice_date[1], tx.posted_at) <= 3
                 THEN <<<<"dates are within days",
                          DateDiffDays(inv.invoice_date[1], tx.posted_at)>>>>
                 ELSE <<<<"date difference days",
                          DateDiffDays(inv.invoice_date[1], tx.posted_at)>>>>
        both == IF inv.currency = tx.currency THEN <<<<"both in", inv.currency>>>> ELSE <<>>
        text == IF /\ inv.description # <<>> /\ tx.description # <<>>
                   /\ \/ IsSubstring(Lower(inv.description), Lower(tx.description))
                      \/ IsSubstring(Lower(tx.description), Lower(inv.description))
                THEN <<<<"descriptions show similarity", 0>>>>
                ELSE <<>>
    IN <<<<"Match score", score>>>> \o <<amount>> \o dates \o both \o text

\* The characters str.strip() removes, of those the texts here are made of.
Whitespace == {" ", "\t", "\n", "\r", "\f"}

\* str.strip() on a text.
RECURSIVE StripLeft(_)
StripLeft(s) == IF s # <<>> /\ Head(s) \in Whitespace THEN StripLeft(Tail(s)) ELSE s

RECURSIVE StripRight(_)
StripRight(s) ==
    IF s # <<>> /\ s[Len(s)] \in Whitespace
    THEN StripRight(SubSeq(s, 1, Len(s) - 1))
    ELSE s

StripText(s) == StripRight(StripLeft(s))

\* What the OpenAI call does: it raises, or it answers with a text, which
\* may come with white space around it or be nothing else.
AIRaises == <<"raises">>
AIReplies ==
    {AIRaises, <<"text", <<>>>>, <<"text", <<"o", "k">>>>,
     <<"text", <<" ", "o", "k", " ">>>>, <<"text", <<"o", "k", "\n">>>>,
     <<"text", <<" ">>>>}
\* settings.openai_api_key: absent or set.
ApiKeys == {<<>>, <<"sk">>}

\* Mutant: the exception of the AI call leaves explain_match.
ExplainMatch_NoCatch(inv, tx, score, enabled, key, reply) ==
    IF enabled /\ key # <<>>
    THEN IF reply = AIRaises
         THEN [status |-> "Error", explanation |-> <<>>]
         ELSE [status |-> "ok", explanation |-> <<<<"ai", StripText(reply[2])>>>>]
    ELSE [status |-> "ok", explanation |-> DeterministicExplanation(inv, tx, score)]

\* AIService.explain_match: the AI text, stripped, when AI is enabled, a key
\* is set and the call answers; the deterministic explanation otherwise.
ExplainMatch(inv, tx, score, enabled, key, reply) ==
    IF enabled /\ key # <<>> /\ reply # AIRaises
    THEN [status |-> "ok", explanation |-> <<<<"ai", StripText(reply[2])>>>>]
    ELSE [status |-> "ok", explanation |-> DeterministicExplanation(inv, tx, score)]

\* The explain route: both rows are loaded by id and tenant (404 without
\* one), the pair is scored and explained; nothing is written.
Explain(t, i, b, enabled, key, reply) ==
    /\ IF /\ i \in 1..Len(invoices) /\ invoices[i].tenant_id = t
          /\ b \in 1..Len(transactions) /\ transactions[b].tenant_id = t
       THEN last' = Outcome("explain", t, <<i, b, enabled, key, reply>>,
                            ExplainMatch(invoices[i], transactions[b],
                                         CalculateMatchScore(invoices[i], transactions[b]).score,
                                         enabled, key, reply).status,
                            [score |-> CalculateMatchScore(invoices[i], transactions[b]).score,
                             explanation |->
                                 ExplainMatch(invoices[i], transactions[b],
                                              CalculateMatchScore(invoices[i], transactions[b]).score,
                                              enabled, key, reply).explanation],
                            FALSE, 0)
       ELSE last' = Outcome("explain", t, <<i, b, enabled, key, reply>>, "NotFound",
                            <<>>, FALSE, 0)
    /\ UNCHANGED <<invoices, transactions, matches, idem, sess>>

\* The explained pairs: one stored invoice and one stored transaction of
\* tenant 1.
ExplainInvoices == {InvA, InvE}
ExplainTransactions == {ItemX, ItemL, ItemC, ItemX2}

InitExplain ==
    /\ \E data \in ExplainInvoices : invoices = <<NewInvoice(1, data)>>
    /\ \E item \in ExplainTransactions : transactions = NewRows(1, <<item>>, <<0>>)
    /\ matches = <<>>
    /\ idem = <<>>
    /\ last = Outcome("none", 0, <<>>, "ok", <<>>, FALSE, 0)
    /\ sess = [p \in Procs |-> NoSession]

ExplainAny ==
    \E t \in Tenants, i \in 1..Len(invoices), b \in 1..Len(transactions),
       enabled \in BOOLEAN, key \in ApiKeys, reply \in AIReplies :
        Explain(t, i, b, enabled, key, reply)

NextExplain == ExplainAny

SpecExplain == InitExplain /\ [][NextExplain]_vars

\* --------------------------------------------------------------- validation
\* The request bodies as the client sends them, before the pydantic schemas.
\* Identifiers and currency codes are strings, optional texts are <<>> (None)
\* or <<text>>.
\* str.strip() and str.upper() on the strings the requests use.
StripStr(v) ==
    IF v = " " THEN ""
    ELSE IF v = " x" THEN "x"
    ELSE IF v = " usd " THEN "usd"
    ELSE v

UpperStr(v) == IF v = "usd" THEN "USD" ELSE IF v = "eur" THEN "EUR" ELSE v

\* Field(max_length=...) of the schemas: the most characters a string field
\* may have as it is sent, before its validator strips it.
ExternalIdMaxLength == 255
InvoiceNumberMaxLength == 255
CurrencyMaxLength == 10
DescriptionMaxLength == 1000

\* The length constraint of an optional text: None passes, a given text has
\* at most n characters.
TextWithin(v, n) == v = <<>> \/ Len(v[1]) <= n

\* The validators of optional texts (description, invoice_number): a given
\* text that is empty or blank is an error.
ValidOptionalText(v) == v = <<>> \/ StripText(v[1]) # <<>>
NormalOptionalText(v) == IF v = <<>> THEN <<>> ELSE StripText(v[1])

\* validate_external_id
ValidExternalId(v) == v = None \/ StripStr(v) # ""

\* Mutant: the currency is not validated.
ValidCurrency_Unchecked(v) == TRUE

\* validate_currency
ValidCurrency(v) == StripStr(v) # ""

\* BankTransactionCreate accepts the item: amount > 0, every string within
\* its max_length as sent, and the validators.
ValidItem(raw) ==
    /\ raw.amount > 0
    /\ raw.external_id = None \/ Len(raw.external_id) <= ExternalIdMaxLength
    /\ Len(raw.currency) <= CurrencyMaxLength
    /\ TextWithin(raw.description, DescriptionMaxLength)
    /\ ValidExternalId(raw.external_id)
    /\ ValidCurrency(raw.currency)
    /\ ValidOptionalText(raw.description)

\* The validated item: identifiers stripped, the currency stripped and
\* upper-cased.
NormalItem(raw) ==
    [Item(IF raw.external_id = None THEN None ELSE StripStr(raw.external_id),
          raw.posted_at, raw.amount, UpperStr(StripStr(raw.currency)),
          NormalOptionalText(raw.description))
        EXCEPT !.amount_scale = raw.amount_scale, !.posted_at_zone = raw.posted_at_zone]

\* InvoiceCreate accepts the body.
ValidInvoice(raw) ==
    /\ raw.amount > 0
    /\ TextWithin(raw.invoice_number, InvoiceNumberMaxLength)
    /\ Len(raw.currency) <= CurrencyMaxLength
    /\ TextWithin(raw.description, DescriptionMaxLength)
    /\ ValidOptionalText(raw.invoice_number)
    /\ ValidCurrency(raw.currency)
    /\ ValidOptionalText(raw.description)

NormalInvoiceData(raw) ==
    InvoiceData(NormalOptionalText(raw.invoice_number), raw.amount,
                UpperStr(StripStr(raw.currency)), <<>>,
                NormalOptionalText(raw.description), <<>>)

\* POST .../bank-transactions/import: the body is validated before the
\* handler runs (HTTP 422); a valid batch goes to import_transactions.
PostImport(t, k, raws) ==
    LET p == [x \in 1..Len(raws) |-> NormalItem(raws[x])]
        out == ImportTransactions(transactions, idem, t, k, p)
    IN /\ IF \A x \in 1..Len(raws) : ValidItem(raws[x])
          THEN /\ transactions' = out.transactions
               /\ idem' = out.idem
               /\ last' = Outcome("post_import", t, <<k, raws>>, out.status, out.result,
                                  out.replayed, Len(out.transactions) - Len(transactions))
          ELSE /\ last' = Outcome("post_import", t, <<k, raws>>, "ValidationError",
                                  <<>>, FALSE, 0)
               /\ UNCHANGED <<transactions, idem>>
       /\ UNCHANGED <<invoices, matches, sess>>

\* POST .../invoices: validation, then create_invoice.
PostInvoice(t, raw) ==
    LET data == NormalInvoiceData(raw)
    IN /\ IF ~ ValidInvoice(raw)
          THEN /\ last' = Outcome("post_invoice", t, raw, "ValidationError", 0, FALSE, 0)
               /\ UNCHANGED invoices
          ELSE IF /\ data.invoice_number # <<>>
                  /\ FindInvoiceNumber(invoices, t, data.invoice_number) # 0
          THEN /\ last' = Outcome("post_invoice", t, raw, "Conflict", 0, FALSE, 0)
               /\ UNCHANGED invoices
          ELSE /\ invoices' = Append(invoices, NewInvoice(t, data))
               /\ last' = Outcome("post_invoice", t, raw, "ok", Len(invoices) + 1, FALSE, 1)
       /\ UNCHANGED <<transactions, matches, idem, sess>>

\* A text of n characters: "a" and then pad spaces.
TextOf(n, pad) == [x \in 1..n |-> IF x > n - pad THEN " " ELSE "a"]

\* A currency of 11 characters.
Currency11 == "ABCDEFGHIJK"

\* The items sent: valid ones, one for each way of being invalid, and one
\* for each string field one character over its max_length.
RawX == Item(" x", 0, 10000, " usd ", <<<<"a", "b", " ">>>>)
RawN == Item(None, 0, 10000, "USD", <<>>)
RawItems ==
    {RawX, RawN,
     [RawN EXCEPT !.amount = 0], [RawN EXCEPT !.amount = -1],
     [RawN EXCEPT !.currency = ""], [RawN EXCEPT !.currency = " "],
     [RawX EXCEPT !.external_id = ""], [RawX EXCEPT !.external_id = " "],
     [RawN EXCEPT !.description = <<<<>>>>],
     [RawN EXCEPT !.currency = "ABCDEFGHIJ"], [RawN EXCEPT !.currency = Currency11],
     [RawN EXCEPT !.external_id =
         "0123456789abcdef0123456789abcdef0123456789abcdef0123456789abcdef0123456789abcdef0123456789abcdef0123456789abcdef0123456789abcdef0123456789abcdef0123456789abcdef0123456789abcdef0123456789abcdef0123456789abcdef0123456789abcdef0123456789abcdef0123456789abcdef"],
     [RawN EXCEPT !.description = <<TextOf(DescriptionMaxLength + 1, 0)>>],
     [RawN EXCEPT !.description = <<TextOf(DescriptionMaxLength + 1, 2)>>]}

\* The batches: one item, or two items of which one at least is valid.
RawBatches ==
    {<<a>> : a \in RawItems}
       \cup {<<a, b>> : a \in {RawX, RawN}, b \in RawItems}
       \cup {<<a, RawX>> : a \in RawItems}

RawInvoice(number, amount, currency, desc) ==
    [invoice_number |-> number, amount |-> amount, currency |-> currency,
     description |-> desc]
RawInvB == RawInvoice(<<<<" ", "b">>>>, 10000, "eur", <<<<"a">>>>)
RawInvoices ==
    {RawInvB, RawInvoice(<<>>, 10000, "USD", <<>>),
     [RawInvB EXCEPT !.amount = 0], [RawInvB EXCEPT !.amount = -1],
     [RawInvB EXCEPT !.invoice_number = <<<<>>>>],
     [RawInvB EXCEPT !.invoice_number = <<<<" ">>>>],
     [RawInvB EXCEPT !.currency = ""], [RawInvB EXCEPT !.currency = " "],
     [RawInvB EXCEPT !.description = <<<<>>>>],
     [RawInvB EXCEPT !.invoice_number = <<TextOf(InvoiceNumberMaxLength, 0)>>],
     [RawInvB EXCEPT !.invoice_number = <<TextOf(InvoiceNumberMaxLength + 1, 0)>>],
     [RawInvB EXCEPT !.currency = Currency11],
     [RawInvB EXCEPT !.description = <<TextOf(DescriptionMaxLength + 1, 0)>>]}

\* Most rows the invoices and the bank_transactions table may hold together
\* in the validation runs.
MaxValidRows == 2

\* The validation runs serve one tenant.
ValidateTenants == {1}

PostImportAny ==
    \E t \in ValidateTenants, k \in ImportKeys, raws \in RawBatches :
        PostImport(t, k, raws) /\ Len(invoices) + Len(transactions') <= MaxValidRows

PostInvoiceAny ==
    \E t \in ValidateTenants, raw \in RawInvoices :
        PostInvoice(t, raw) /\ Len(invoices') + Len(transactions) <= MaxValidRows

NextValidate == PostImportAny \/ PostInvoiceAny

SpecValidate == Init /\ [][NextValidate]_vars

\* ------------------------------------------------------------ keyed imports
\* Imports of one tenant under one key, with batches that differ from
\* <<ItemX>> in one field, in the number of items, in the order only, or in
\* the text an equal amount or timestamp was sent as ("100.0", "...Z").
HashKey == "k1"
HashTenant == 1
HashPayloads ==
    { <<>>, <<ItemX>>,
      <<[ItemX EXCEPT !.external_id = None]>>,
      <<[ItemX EXCEPT !.posted_at = 1]>>,
      <<[ItemX EXCEPT !.amount = 10001]>>,
      <<[ItemX EXCEPT !.currency = "EUR"]>>,
      <<[ItemX EXCEPT !.description = <<"b">>]>>,
      <<[ItemX EXCEPT !.description = <<>>]>>,
      <<[ItemX EXCEPT !.amount_scale = 1]>>,
      <<[ItemX EXCEPT !.posted_at_zone = "Z"]>>,
      <<ItemX, ItemN>>, <<ItemN, ItemX>>, <<ItemN, ItemN>>, <<ItemN>> }

\* Most rows the bank_transactions table may hold in the keyed imports.
MaxHashRows == 3

ImportKeyedAny ==
    \E p \in HashPayloads :
        Import(HashTenant, HashKey, p) /\ Len(transactions') <= MaxHashRows

ImportUnkeyedAny ==
    \E p \in {<<ItemX>>, <<ItemN>>} :
        Import(HashTenant, NoKey, p) /\ Len(transactions') <= MaxHashRows

NextHash == ImportKeyedAny \/ ImportUnkeyedAny

SpecHash == Init /\ [][NextHash]_vars

\* =================================================================== claims
\* ---------------------------------------------------------------- C1
LastImport(st) == st.op = "import"

\* C1: when an import with an idempotency key has succeeded and the very
\* next request is the same import (same tenant, key and payload), the second
\* call succeeds and returns the same list of transaction ids, in the same
\* order.
C1_SameIdsOnRepeat ==
    [][(/\ LastImport(last) /\ last.status = "ok" /\ last.arg[1] # NoKey
        /\ LastImport(last') /\ last'.tenant = last.tenant /\ last'.arg = last.arg)
       => (last'.status = "ok" /\ last'.result = last.result)]_vars

\* ---------------------------------------------------------------- C2
\* The request that just completed was an import under key k whose (tenant,
\* key) row, before the call, stored a hash other than the payload's.
ReusedKeyImport ==
    /\ LastImport(last') /\ last'.arg[1] # NoKey
    /\ \E r \in 1..Len(idem) :
          /\ idem[r].tenant_id = last'.tenant
          /\ idem[r].idempotency_key = last'.arg[1]
          /\ idem[r].payload_hash # HashPayload(last'.arg[2])

\* C2: an import under a key whose record of the same tenant stores a
\* different payload hash fails with Conflict, inserts no transaction and
\* leaves every idempotency record as it was.
C2_ConflictChangesNothing ==
    [][ReusedKeyImport
       => (/\ last'.status = "Conflict"
           /\ transactions' = transactions
           /\ idem' = idem)]_vars

\* A conflict was answered: the key's record holds another payload's hash.
C2_Witness ==
    /\ LastImport(last) /\ last.status = "Conflict"
    /\ \E r \in 1..Len(idem) :
          /\ idem[r].tenant_id = last.tenant
          /\ idem[r].idempotency_key = last.arg[1]
          /\ idem[r].payload_hash # HashPayload(last.arg[2])

\* ---------------------------------------------------------------- C3
\* Item i of the batch carries an external id that tenant t has stored.
StoredItem(txs, t, p, i) ==
    /\ p[i].external_id # None
    /\ \E b \in 1..Len(txs) : txs[b].tenant_id = t /\ txs[b].external_id = p[i].external_id

\* The external ids of the batch that are not stored yet are pairwise distinct.
FreshIdsDistinct(txs, t, p) ==
    \A i, j \in 1..Len(p) :
        (i # j /\ p[i].external_id # None /\ ~ StoredItem(txs, t, p, i))
            => p[i].external_id # p[j].external_id

\* C3: item-level dedup. After every step there is at most one stored
\* transaction per (tenant, external_id); an import that succeeds, with or
\* without a key, inserts no row for an item whose (tenant, external_id) is
\* stored and returns the stored row's id; and the stored ids of a batch never
\* make it fail (it fails only on a reused key).
C3_ItemLevelDedup ==
    [][/\ \A a, b \in 1..Len(transactions') :
             (/\ a # b
              /\ transactions'[a].external_id # None
              /\ transactions'[a].tenant_id = transactions'[b].tenant_id)
                 => transactions'[a].external_id # transactions'[b].external_id
       /\ LastImport(last') =>
            LET t == last'.tenant
                p == last'.arg[2]
            IN /\ (FreshIdsDistinct(transactions, t, p)) => last'.status \in {"ok", "Conflict"}
               /\ last'.status = "ok" =>
                    \A i \in 1..Len(p) :
                        StoredItem(transactions, t, p, i) =>
                            /\ \E b \in 1..Len(transactions) :
                                  /\ transactions[b].tenant_id = t
                                  /\ transactions[b].external_id = p[i].external_id
                                  /\ b \in Range(last'.result)
                            /\ \A n \in (Len(transactions) + 1)..Len(transactions') :
                                  ~ (/\ transactions'[n].tenant_id = t
                                     /\ transactions'[n].external_id = p[i].external_id)
      ]_vars

\* An import without a key reused a stored row next to a row it inserted.
C3_Witness ==
    /\ LastImport(last) /\ last.status = "ok" /\ last.arg[1] = NoKey
    /\ last.writes = 1 /\ Len(last.arg[2]) = 2
    /\ \E i \in 1..2 :
          /\ last.arg[2][i].external_id # None
          /\ last.result[i] < Len(transactions)

\* ---------------------------------------------------------------- C4
LastReconcile(st) == st.op = "reconcile"

\* C4: when a reconcile run has completed and the very next request is a
\* reconcile run of the same tenant, the second run completes, inserts
\* nothing and leaves the Match table (the PROPOSED rows included) as the
\* first run left it.
C4_ReconcileIdempotent ==
    [][(/\ LastReconcile(last) /\ last.status = "ok"
        /\ LastReconcile(last') /\ last'.tenant = last.tenant)
       => (last'.status = "ok" /\ last'.writes = 0 /\ matches' = matches)]_vars

\* A reconcile run returned candidates and had nothing to insert: each of
\* them already had its row from an earlier run.
C4_Witness ==
    /\ LastReconcile(last) /\ last.status = "ok"
    /\ last.result # <<>> /\ last.writes = 0

\* ---------------------------------------------------------------- C5
\* C5: in every reachable state, whatever requests ran and however their
\* steps interleaved, no two Match rows share (tenant, invoice, transaction).
C5_OneMatchPerPair ==
    \A a, b \in 1..Len(matches) :
        (/\ a # b
         /\ matches[a].tenant_id = matches[b].tenant_id
         /\ matches[a].invoice_id = matches[b].invoice_id)
            => matches[a].bank_transaction_id # matches[b].bank_transaction_id

\* Two runs proposed the same pair: one row is stored and the run that
\* committed second was stopped by the index.
C5_Witness ==
    /\ matches # <<>>
    /\ \E p, q \in Procs :
          /\ p # q
          /\ sess[p].pc = "done" /\ sess[p].op = "reconcile" /\ sess[p].status = "ok"
          /\ sess[q].pc = "done" /\ sess[q].op = "reconcile"
          /\ sess[q].status = "PersistenceError"

\* ---------------------------------------------------------------- C6
\* The transactions an invoice may be paired with by a run of tenant t: the
\* tenant's transactions without a CONFIRMED match, in the invoice's currency.
EligibleFor(t, i) ==
    {b \in 1..Len(transactions) :
        /\ transactions[b].tenant_id = t
        /\ ~ \E m \in 1..Len(matches) :
                /\ matches[m].tenant_id = t
                /\ matches[m].status = CONFIRMED
                /\ matches[m].bank_transaction_id = b
        /\ transactions[b].currency = invoices[i].currency}

ScoreOf(i, b) == CalculateMatchScore(invoices[i], transactions[b]).score

OpenInvoicesOf(t) ==
    {i \in 1..Len(invoices) : invoices[i].tenant_id = t /\ invoices[i].status = OPEN}

\* C6: the candidates of a completed reconcile run: at most one per OPEN
\* invoice of the tenant; the candidate's transaction is eligible, in the
\* invoice's currency, scores at least 20.00, no eligible transaction scores
\* higher and none with the same score comes earlier; and every OPEN invoice
\* with an eligible transaction scoring at least 20.00 has a candidate.
C6_CandidateSelection ==
    (LastReconcile(last) /\ last.status = "ok") =>
        LET t == last.tenant
            c == last.result
        IN /\ \A x, y \in 1..Len(c) : x # y => c[x].invoice_id # c[y].invoice_id
           /\ \A x \in 1..Len(c) :
                 /\ c[x].invoice_id \in OpenInvoicesOf(t)
                 /\ c[x].bank_transaction_id \in EligibleFor(t, c[x].invoice_id)
                 /\ c[x].score = ScoreOf(c[x].invoice_id, c[x].bank_transaction_id)
                 /\ c[x].score >= MIN_SCORE_THRESHOLD
                 /\ \A b \in EligibleFor(t, c[x].invoice_id) :
                       /\ ScoreOf(c[x].invoice_id, b) <= c[x].score
                       /\ ScoreOf(c[x].invoice_id, b) = c[x].score
                             => c[x].bank_transaction_id <= b
           /\ \A i \in OpenInvoicesOf(t) :
                 (\E b \in EligibleFor(t, i) : ScoreOf(i, b) >= MIN_SCORE_THRESHOLD)
                    => \E x \in 1..Len(c) : c[x].invoice_id = i

\* A run gave two invoices the same transaction, chosen in a tie with a later
\* transaction.
C6_Witness ==
    /\ LastReconcile(last) /\ last.status = "ok" /\ Len(last.result) = 2
    /\ last.result[1].bank_transaction_id = last.result[2].bank_transaction_id
    /\ \E b \in EligibleFor(last.tenant, last.result[1].invoice_id) :
          /\ b > last.result[1].bank_transaction_id
          /\ ScoreOf(last.result[1].invoice_id, b) = last.result[1].score

\* ---------------------------------------------------------------- C7
\* C7: every candidate of a completed reconcile run and every Match row pairs
\* an invoice and a transaction of the same currency.
C7_SameCurrencyOnly ==
    /\ \A m \in 1..Len(matches) :
          invoices[matches[m].invoice_id].currency
              = transactions[matches[m].bank_transaction_id].currency
    /\ (LastReconcile(last) /\ last.status = "ok") =>
          \A x \in 1..Len(last.result) :
              invoices[last.result[x].invoice_id].currency
                  = transactions[last.result[x].bank_transaction_id].currency

\* A run left an OPEN invoice without candidate although a transaction of
\* another currency would have scored above the threshold.
C7_Witness ==
    /\ LastReconcile(last) /\ last.status = "ok"
    /\ \E i \in OpenInvoicesOf(last.tenant), b \in 1..Len(transactions) :
          /\ transactions[b].tenant_id = last.tenant
          /\ transactions[b].currency # invoices[i].currency
          /\ ScoreOf(i, b) >= MIN_SCORE_THRESHOLD
          /\ \A x \in 1..Len(last.result) : last.result[x].invoice_id # i

\* ---------------------------------------------------------------- C8
LastConfirm(st) == st.op = "confirm"

\* C8: a confirm for which no Match with that id, that tenant and status
\* PROPOSED exists fails with NotFound and leaves matches and invoices alone.
C8_ConfirmNotFound ==
    [][(/\ LastConfirm(last')
        /\ ~ \E m \in 1..Len(matches) :
                /\ m = last'.arg
                /\ matches[m].tenant_id = last'.tenant
                /\ matches[m].status = PROPOSED)
       => (/\ last'.status = "NotFound"
           /\ matches' = matches
           /\ invoices' = invoices)]_vars

\* The second confirm of a match its own tenant had confirmed was refused.
C8_Witness ==
    /\ LastConfirm(last) /\ last.status = "NotFound"
    /\ last.arg \in 1..Len(matches)
    /\ matches[last.arg].tenant_id = last.tenant
    /\ matches[last.arg].status = CONFIRMED

\* ---------------------------------------------------------------- C9
\* No CONFIRMED match has a stored invoice that is OPEN.
NoConfirmedWithOpenInvoice(ms, invs) ==
    \A m \in 1..Len(ms) :
        ms[m].status = CONFIRMED =>
            ~ (Stored(invs, ms[m].invoice_id) /\ invs[ms[m].invoice_id].status = OPEN)

\* C9: the committed tables never show a CONFIRMED match whose invoice is
\* OPEN; the commit of a confirm shows the match CONFIRMED and its invoice
\* MATCHED at once, and a confirm whose commit fails shows neither.
C9_ConfirmAtomic ==
    [][/\ NoConfirmedWithOpenInvoice(matches', invoices')
       /\ \A p \in Procs :
             /\ (sess[p].pc = "confirm_commit" /\ sess'[p].pc = "confirm_refresh") =>
                   /\ matches'[sess[p].arg].status = CONFIRMED
                   /\ Stored(invoices', matches'[sess[p].arg].invoice_id) =>
                         invoices'[matches'[sess[p].arg].invoice_id].status = MATCHED
             /\ (sess[p].pc = "confirm_commit" /\ sess'[p].pc = "done") =>
                   (matches' = matches /\ invoices' = invoices)
      ]_vars

\* --------------------------------------------------------------- C10
\* C10: of two confirmations of one match id at most one succeeds: no two
\* sessions have both returned the confirmed match for the same id.
C10_OneConfirmSucceeds ==
    \A p, q \in Procs :
        (/\ p # q
         /\ sess[p].pc = "done" /\ sess[p].op = "confirm" /\ sess[p].status = "ok"
         /\ sess[q].pc = "done" /\ sess[q].op = "confirm" /\ sess[q].status = "ok")
            => ~ (sess[p].tenant = sess[q].tenant /\ sess[p].arg = sess[q].arg)

\* --------------------------------------------------------------- C11
\* C11: when two reconcile runs of one tenant interleave and propose the same
\* pair, both runs complete successfully: no reconcile request ends with the
\* uniqueness violation as its outcome.
C11_BothRunsComplete ==
    \A p \in Procs :
        (sess[p].pc = "done" /\ sess[p].op = "reconcile") => sess[p].status = "ok"

\* --------------------------------------------------------------- C17
\* C17: in every reachable state no transaction has more than one CONFIRMED
\* match, also when two invoices each held a PROPOSED match to it.
C17_OneConfirmedPerTransaction ==
    \A a, b \in 1..Len(matches) :
        (/\ a # b
         /\ matches[a].status = CONFIRMED
         /\ matches[b].status = CONFIRMED
         /\ matches[a].tenant_id = matches[b].tenant_id)
            => matches[a].bank_transaction_id # matches[b].bank_transaction_id

\* --------------------------------------------------------------- C18
\* Table tbl' keeps every row of tbl that tenant t does not own, and the rows
\* it gained are owned by t.
OthersUntouched(tbl, tbl2, t) ==
    /\ Len(tbl2) >= Len(tbl)
    /\ \A i \in 1..Len(tbl) : tbl[i].tenant_id # t => tbl2[i] = tbl[i]
    /\ \A i \in (Len(tbl) + 1)..Len(tbl2) : tbl2[i].tenant_id = t

\* The invoices table invs2 keeps every stored row of invs that tenant t does
\* not own, and the rows it gained are owned by t.
OtherInvoicesUntouched(invs, invs2, t) ==
    /\ \A i \in 1..Len(invs) :
          (Stored(invs, i) /\ invs[i].tenant_id # t) =>
             (Stored(invs2, i) /\ invs2[i] = invs[i])
    /\ \A i \in 1..Len(invs2) :
          (Stored(invs2, i) /\ ~ (Stored(invs, i) /\ invs[i] = invs2[i])) =>
             invs2[i].tenant_id = t

\* Session q took a step of an import, reconcile or confirm request.
TenantStep(q) ==
    sess'[q] # sess[q] /\ sess'[q].op \in {"import", "reconcile", "confirm"}

\* C18: tenant isolation. Every Match row's tenant is the tenant of the
\* invoice stored under its invoice id and of its transaction, and every
\* step of an import, reconcile or confirm request made for tenant A leaves
\* the invoices, transactions, matches and idempotency records of every
\* other tenant as they were, adds rows only for A, and an import returns
\* only rows of A.
C18_TenantIsolation ==
    [][/\ \A m \in 1..Len(matches') :
             /\ Stored(invoices', matches'[m].invoice_id) =>
                   invoices'[matches'[m].invoice_id].tenant_id = matches'[m].tenant_id
             /\ transactions'[matches'[m].bank_transaction_id].tenant_id
                   = matches'[m].tenant_id
       /\ \A q \in Procs :
             TenantStep(q) =>
                /\ OtherInvoicesUntouched(invoices, invoices', sess'[q].tenant)
                /\ OthersUntouched(transactions, transactions', sess'[q].tenant)
                /\ OthersUntouched(matches, matches', sess'[q].tenant)
                /\ OthersUntouched(idem, idem', sess'[q].tenant)
                /\ (sess'[q].op = "import" /\ sess'[q].pc = "done"
                       /\ sess'[q].status = "ok") =>
                      \A x \in 1..Len(sess'[q].result) :
                          transactions'[sess'[q].result[x]].tenant_id = sess'[q].tenant
      ]_vars

\* --------------------------------------------------------------- C19
\* The items of the batch that get a new row: those without a stored
\* (tenant, external_id).
FreshItems(txs, t, p) == {i \in 1..Len(p) : ~ StoredItem(txs, t, p, i)}

\* C19: no partial imports. An import stores either every new row of the call
\* or none; a call that does not succeed leaves the transaction table as it
\* was; and a call whose new rows cannot all be inserted (two of them carry
\* the same external id) does not succeed.
C19_NoPartialImport ==
    [][LastImport(last') =>
          LET t == last'.tenant
              p == last'.arg[2]
          IN /\ \/ transactions' = transactions
                \/ /\ Len(transactions') =
                          Len(transactions) + Cardinality(FreshItems(transactions, t, p))
                   /\ \A i \in 1..Len(transactions) : transactions'[i] = transactions[i]
             /\ last'.status # "ok" => transactions' = transactions
             /\ ~ FreshIdsDistinct(transactions, t, p) => last'.status # "ok"
      ]_vars

\* A batch of two new rows failed at the commit and none of them is stored.
C19_Witness ==
    /\ LastImport(last) /\ last.status = "PersistenceError"
    /\ Len(last.arg[2]) = 2
    /\ ~ \E b \in 1..Len(transactions) :
            /\ transactions[b].tenant_id = last.tenant
            /\ transactions[b].external_id = last.arg[2][1].external_id

\* --------------------------------------------------------------- C20
\* C20: when an import under a key succeeded but its idempotency record was
\* not persisted (no record of the tenant and key exists afterwards), the
\* very next request, a retry with the same key and payload, succeeds, stores
\* no additional transaction and returns the same transaction ids.
C20_RetryAfterLostRecord ==
    [][(/\ LastImport(last) /\ last.status = "ok" /\ last.arg[1] # NoKey
        /\ FindIdem(idem, last.tenant, last.arg[1]) = 0
        /\ LastImport(last') /\ last'.tenant = last.tenant /\ last'.arg = last.arg)
       => (/\ last'.status = "ok"
           /\ transactions' = transactions
           /\ last'.result = last.result)]_vars

\* --------------------------------------------------------------- C14
LastScore(st) == st.op = "score" /\ st.status = "ok"

\* The scored invoice and the scored transaction of the last request.
ScoredInvoice == invoices[last.arg[1]]
ScoredTransaction == transactions[last.arg[2]]

\* The scored pair has equal amounts, both timestamps present and equal, and
\* the same non-empty description on both sides.
PerfectPair ==
    /\ ScoredInvoice.amount = ScoredTransaction.amount
    /\ ScoredInvoice.invoice_date = <<ScoredTransaction.posted_at>>
    /\ ScoredInvoice.description # <<>>
    /\ ScoredInvoice.description = ScoredTransaction.description

HasReason(label) == \E x \in 1..Len(last.result.reasons) : last.result.reasons[x][1] = label

\* C14, as stated: a pair with equal amount, equal date and identical
\* description scores 100.00 and its reason includes "exact amount match".
C14_PerfectPairScores100 ==
    (LastScore(last) /\ PerfectPair) =>
        (last.result.score = 10000 /\ HasReason("exact amount match"))

\* C14, amended: such a pair scores at least 69.00 and at most 70.00 (50.00
\* for the amount, 15.00 for the date, between 4.00 and 5.00 for the text)
\* and its reason includes "exact amount match".
C14_PerfectPairScores69To70 ==
    (LastScore(last) /\ PerfectPair) =>
        /\ last.result.score >= 6900
        /\ last.result.score <= 7000
        /\ HasReason("exact amount match")

\* A perfect pair whose invoice text also carries the invoice number was
\* scored: 69.00, the text ratio raised to 0.8.
C14_Witness ==
    /\ LastScore(last) /\ PerfectPair
    /\ ScoredInvoice.invoice_number # <<>>
    /\ last.result.score = 6900

\* --------------------------------------------------------------- C15
\* The score of the scored invoice with a transaction.
ScoreWith(tx) == CalculateMatchScore(ScoredInvoice, tx).score

\* The scored transaction with an amount outside the tolerance.
OtherAmount == [ScoredTransaction EXCEPT !.amount = ScoredInvoice.amount + 2 * AMOUNT_TOLERANCE]

\* The amount term the claim states for a difference of d cents.
StatedAmountTerm(d) ==
    IF d = 0 THEN 5000
    ELSE IF d <= 1 THEN 3000 * (1 - d)
    ELSE 0

\* The reason the claim's source states for a difference of d cents.
StatedAmountReason(d) ==
    IF d = 0 THEN <<"exact amount match", 0>>
    ELSE IF d <= 1 THEN <<"amount within tolerance", d>>
    ELSE <<"amount mismatch", 0>>

\* C15: with d the amount difference in cents, the amount term is 50.00 for
\* d = 0, 30.00 * (1 - d/0.01) for 0 < d <= 0.01 (so 0 at d = 0.01) and 0
\* beyond: a pair that has no other factor scores exactly the term, and
\* every pair scores the term more than the same pair with an amount outside
\* the tolerance; the first reason names the case.
C15_AmountTerm ==
    LastScore(last) =>
        LET d == Abs(ScoredInvoice.amount - ScoredTransaction.amount)
        IN /\ last.result.reasons[1] = StatedAmountReason(d)
           /\ Len(last.result.reasons) = 1 => last.result.score = StatedAmountTerm(d)
           /\ last.result.score - ScoreWith(OtherAmount) = StatedAmountTerm(d)
           /\ d # 0 => last.result.score = ScoreWith(OtherAmount)

\* A pair exactly one cent apart was scored, with a date and a text factor.
C15_Witness ==
    /\ LastScore(last)
    /\ Abs(ScoredInvoice.amount - ScoredTransaction.amount) = 1
    /\ Len(last.result.reasons) = 3
    /\ last.result.score > 1500

\* --------------------------------------------------------------- C16
\* The whole days between the two timestamps, as the scorer counts them.
ScoredDays == DateDiffDays(ScoredInvoice.invoice_date[1], ScoredTransaction.posted_at)

\* The scored invoice without its date.
Undated == [ScoredInvoice EXCEPT !.invoice_date = <<>>]

\* The date term the claim states for a difference of n days.
StatedDateTerm(n) == IF n <= 3 THEN (1500 * (3 - n)) \div 3 ELSE 0

DateReasons == {x \in 1..Len(last.result.reasons) :
                   last.result.reasons[x][1] \in {"date within days", "date difference days"}}

\* C16: with both dates present the date term is 15.00 * (1 - days/3) for
\* days <= 3 and 0 beyond (0 at days = 3), with one reason entry naming the
\* days; without the invoice date there is no term and no entry.  Hence a pair
\* that differs from the scored one only in a posting time with no more days
\* never scores lower, and a same-day pair scores strictly higher than a pair
\* three days apart.
C16_DateTerm ==
    LastScore(last) =>
        IF ScoredInvoice.invoice_date = <<>>
        THEN DateReasons = {}
        ELSE /\ last.result.score - CalculateMatchScore(Undated, ScoredTransaction).score
                    = StatedDateTerm(ScoredDays)
             /\ \E x \in DateReasons :
                   /\ DateReasons = {x}
                   /\ last.result.reasons[x] =
                         IF ScoredDays <= 3 THEN <<"date within days", ScoredDays>>
                         ELSE <<"date difference days", ScoredDays>>
             /\ \A q \in 0..MaxPostedAt :
                   LET other == [ScoredTransaction EXCEPT !.posted_at = q]
                       days == DateDiffDays(ScoredInvoice.invoice_date[1], q)
                   IN /\ days <= ScoredDays => ScoreWith(other) >= last.result.score
                      /\ (days = 0 /\ ScoredDays = 3) => ScoreWith(other) > last.result.score

\* A pair exactly three days apart was scored: the entry is there, the term
\* is 0.
C16_Witness ==
    /\ LastScore(last)
    /\ ScoredInvoice.invoice_date # <<>>
    /\ ScoredDays = 3
    /\ last.result.score = CalculateMatchScore(Undated, ScoredTransaction).score
    /\ HasReason("date within days")

\* --------------------------------------------------------------- C12
ImportAnswered(q) == sess[q].pc = "done" /\ sess[q].op = "import"

\* Both requests found no row for the external id of their items x and y.
BothPassedCheck(q, o, x, y) ==
    /\ sess[q].tenant = sess[o].tenant
    /\ sess[q].arg[2][x].external_id # None
    /\ sess[q].arg[2][x].external_id = sess[o].arg[2][y].external_id
    /\ x <= Len(sess[q].refs) /\ sess[q].refs[x] = 0
    /\ y <= Len(sess[o].refs) /\ sess[o].refs[y] = 0

\* C12: when two imports both pass the existence check for one
\* (tenant, external_id) before either commits, both answer without error and
\* both return the id of the one stored row for that item.
C12_RaceLoserReusesRow ==
    \A q \in Procs : \A o \in Procs \ {q} :
        (ImportAnswered(q) /\ ImportAnswered(o)) =>
            \A x \in 1..Len(sess[q].arg[2]), y \in 1..Len(sess[o].arg[2]) :
                BothPassedCheck(q, o, x, y) =>
                    /\ sess[q].status = "ok"
                    /\ sess[q].result[x] =
                          FindByExternalId(transactions, sess[q].tenant,
                                           sess[q].arg[2][x].external_id)

\* --------------------------------------------------------------- C13
\* Request q began while request o was under way, with the same tenant, the
\* same key and the same payload, and neither met a record of another payload.
SameRequestRaced(q, o) ==
    /\ ImportAnswered(q) /\ ImportAnswered(o)
    /\ sess[q].raced
    /\ sess[q].tenant = sess[o].tenant
    /\ sess[q].arg = sess[o].arg
    /\ sess[q].arg[1] # NoKey
    /\ sess[q].status # "Conflict" /\ sess[o].status # "Conflict"

IdemRecords(t, k) ==
    {r \in 1..Len(idem) : idem[r].tenant_id = t /\ idem[r].idempotency_key = k}

\* C13: two concurrent imports with the same tenant, key and payload both
\* answer without error and with the same transaction ids, together they
\* insert no more rows than the batch has items, and one idempotency record
\* exists for (tenant, key).
C13_SameRequestConsistent ==
    \A q \in Procs : \A o \in Procs \ {q} :
        SameRequestRaced(q, o) =>
            /\ sess[q].status = "ok" /\ sess[o].status = "ok"
            /\ sess[q].result = sess[o].result
            /\ sess[q].writes + sess[o].writes <= Len(sess[q].arg[2])
            /\ Cardinality(IdemRecords(sess[q].tenant, sess[q].arg[1])) = 1

\* --------------------------------------------------------------- C21
\* The CONFIRMED Match rows.
ConfirmedMatches == {m \in 1..Len(matches) : matches[m].status = CONFIRMED}

\* The rows the last request appended to the Match table.
InsertedMatches == (Len(matches) - last.writes + 1)..Len(matches)

\* C21: a reconcile run considers the tenant's OPEN invoices and the
\* tenant's transactions without CONFIRMED match: every OPEN invoice with
\* such a transaction of its currency scoring at least 20.00 gets a candidate
\* that scores no lower (a PROPOSED match does not take the transaction out),
\* and no candidate and no inserted Match of the run names the invoice or the
\* transaction of a CONFIRMED match.
C21_Eligibility ==
    (LastReconcile(last) /\ last.status = "ok") =>
        /\ \A i \in OpenInvoicesOf(last.tenant) : \A b \in EligibleFor(last.tenant, i) :
              ScoreOf(i, b) >= MIN_SCORE_THRESHOLD =>
                 \E x \in 1..Len(last.result) :
                    /\ last.result[x].invoice_id = i
                    /\ last.result[x].score >= ScoreOf(i, b)
        /\ \A m \in ConfirmedMatches :
              /\ \A x \in 1..Len(last.result) :
                    /\ last.result[x].invoice_id # matches[m].invoice_id
                    /\ last.result[x].bank_transaction_id # matches[m].bank_transaction_id
              /\ \A n \in InsertedMatches :
                    /\ matches[n].invoice_id # matches[m].invoice_id
                    /\ matches[n].bank_transaction_id # matches[m].bank_transaction_id

\* A run after a confirmation: the confirmed transaction would have scored
\* above the threshold with an OPEN invoice of the tenant, and another
\* candidate of the run has a transaction that carried a PROPOSED match before.
C21_Witness ==
    /\ LastReconcile(last) /\ last.status = "ok"
    /\ \E m \in ConfirmedMatches : \E i \in OpenInvoicesOf(last.tenant) :
          /\ matches[m].tenant_id = last.tenant
          /\ invoices[matches[m].invoice_id].status = MATCHED
          /\ invoices[i].currency = transactions[matches[m].bank_transaction_id].currency
          /\ ScoreOf(i, matches[m].bank_transaction_id) >= MIN_SCORE_THRESHOLD
    /\ \E x \in 1..Len(last.result) : \E n \in 1..Len(matches) \ InsertedMatches :
          /\ matches[n].status = PROPOSED
          /\ matches[n].bank_transaction_id = last.result[x].bank_transaction_id

\* --------------------------------------------------------------- C22
\* Before the call, row r was the record of the request's (tenant, key),
\* stored the payload's hash and stored only ids of transaction rows of the
\* tenant.
ReplayRecord(r) ==
    /\ idem[r].tenant_id = last'.tenant
    /\ idem[r].idempotency_key = last'.arg[1]
    /\ idem[r].payload_hash = HashPayload(last'.arg[2])
    /\ \A b \in Range(idem[r].transaction_ids) :
          b \in 1..Len(transactions) /\ transactions[b].tenant_id = last'.tenant

\* C22: an import under a key whose record stores the same payload hash and
\* ids that all resolve to transaction rows of the tenant returns those rows
\* with replayed = true and writes nothing: transactions, matches and
\* idempotency records are as before the call.
C22_ReplayShortCircuit ==
    [][\A r \in 1..Len(idem) :
          (LastImport(last') /\ last'.arg[1] # NoKey /\ ReplayRecord(r))
             => (/\ last'.status = "ok"
                 /\ last'.replayed
                 /\ Range(last'.result) = Range(idem[r].transaction_ids)
                 /\ transactions' = transactions
                 /\ matches' = matches
                 /\ idem' = idem)]_vars

\* --------------------------------------------------------------- C23
\* C23: after every step of every interleaving of import requests there is
\* at most one idempotency record per (tenant, key), and every record that
\* existed before the step is still there with the payload hash it had.
C23_RecordHashStable ==
    [][/\ \A a, b \in 1..Len(idem') :
             (/\ a # b /\ idem'[a].tenant_id = idem'[b].tenant_id)
                 => idem'[a].idempotency_key # idem'[b].idempotency_key
       /\ Len(idem') >= Len(idem)
       /\ \A r \in 1..Len(idem) :
             /\ idem'[r].tenant_id = idem[r].tenant_id
             /\ idem'[r].idempotency_key = idem[r].idempotency_key
             /\ idem'[r].payload_hash = idem[r].payload_hash]_vars

\* --------------------------------------------------------------- C24
\* The step was a successful confirm of match m.
ConfirmedNow(m) ==
    /\ LastConfirm(last') /\ last'.status = "ok" /\ last'.arg = m
    /\ m \in 1..Len(matches)

\* C24: in every step of create, delete, import, reconcile and confirm
\* requests, a new invoice is created OPEN; the status of a stored invoice
\* changes only in a successful confirm of one of its matches, from OPEN to
\* MATCHED; a MATCHED invoice stays stored and MATCHED; no invoice becomes
\* PAID; import and reconcile leave the invoices as they were.
C24_InvoiceLifecycle ==
    [][/\ \A i \in 1..Len(invoices') :
             Stored(invoices', i) =>
                /\ invoices'[i].status # PAID
                /\ ~ Stored(invoices, i) =>
                      (invoices'[i].status = OPEN /\ last'.op = "create_invoice")
                /\ (Stored(invoices, i) /\ invoices'[i].status # invoices[i].status) =>
                      /\ invoices[i].status = OPEN
                      /\ invoices'[i].status = MATCHED
                      /\ \E m \in 1..Len(matches) :
                            ConfirmedNow(m) /\ matches[m].invoice_id = i
       /\ \A i \in 1..Len(invoices) :
             (Stored(invoices, i) /\ invoices[i].status = MATCHED) =>
                (Stored(invoices', i) /\ invoices'[i].status = MATCHED)
       /\ (LastImport(last') \/ LastReconcile(last')) => invoices' = invoices]_vars

\* A reconcile run completed while one invoice of the tenant was MATCHED and
\* another OPEN.
C24_Witness ==
    /\ LastReconcile(last) /\ last.status = "ok"
    /\ \E i, j \in 1..Len(invoices) :
          /\ invoices[i].tenant_id = last.tenant /\ invoices[i].status = MATCHED
          /\ invoices[j].tenant_id = last.tenant /\ invoices[j].status = OPEN

\* --------------------------------------------------------------- C25
\* C25: in every step, a new Match row is PROPOSED and added by reconcile;
\* a stored row stays in place, and its status changes only in a successful
\* confirm of that match, from PROPOSED to CONFIRMED; a CONFIRMED row stays
\* CONFIRMED and no row becomes REJECTED.
C25_MatchLifecycle ==
    [][/\ Len(matches') >= Len(matches)
       /\ \A m \in 1..Len(matches') :
             /\ matches'[m].status # REJECTED
             /\ m > Len(matches) =>
                   (matches'[m].status = PROPOSED /\ LastReconcile(last'))
             /\ m <= Len(matches) =>
                   /\ matches'[m].tenant_id = matches[m].tenant_id
                   /\ matches'[m].invoice_id = matches[m].invoice_id
                   /\ matches'[m].bank_transaction_id = matches[m].bank_transaction_id
                   /\ matches[m].status = CONFIRMED => matches'[m].status = CONFIRMED
                   /\ matches'[m].status # matches[m].status =>
                         /\ ConfirmedNow(m)
                         /\ matches[m].status = PROPOSED
                         /\ matches'[m].status = CONFIRMED]_vars

\* A reconcile run added a PROPOSED row next to a CONFIRMED one, and an
\* import came after it.
C25_Witness ==
    /\ LastImport(last) /\ last.status = "ok"
    /\ \E m, n \in 1..Len(matches) :
          /\ m < n
          /\ matches[m].status = CONFIRMED
          /\ matches[n].status = PROPOSED

\* --------------------------------------------------------------- C26
\* Session q took a step of a create request.
CreateStep(q) == sess'[q] # sess[q] /\ sess'[q].op = "create_invoice"

\* Request q answered in this step.
CreateEnded(q) == CreateStep(q) /\ sess'[q].pc = "done"

\* Before the step the tenant of q's request had an invoice with its number.
NumberUsed(q) ==
    /\ sess'[q].arg.invoice_number # <<>>
    /\ \E i \in 1..Len(invoices) :
          /\ invoices[i].tenant_id = sess'[q].tenant
          /\ invoices[i].invoice_number = sess'[q].arg.invoice_number

\* C26: after every step of every interleaving of create and delete requests
\* a present invoice_number is unique within its tenant.  A create called
\* while its tenant has the number ends there with Conflict, and only then;
\* a commit made while the tenant has the number stores nothing and the
\* request does not succeed; a commit made while the tenant does not have
\* the number, whatever other tenants have, stores the row under a new id
\* and the request then succeeds with that id, unless the row was deleted
\* before the request read it back.
C26_InvoiceNumberUnique ==
    [][/\ \A a, b \in 1..Len(invoices') :
             (/\ a # b /\ invoices'[a].invoice_number # <<>>
              /\ invoices'[a].tenant_id = invoices'[b].tenant_id)
                 => invoices'[a].invoice_number # invoices'[b].invoice_number
       /\ \A q \in Procs :
             /\ (CreateStep(q) /\ Idle(q)) =>
                   /\ invoices' = invoices
                   /\ NumberUsed(q) <=> CreateEnded(q)
                   /\ CreateEnded(q) => sess'[q].status = "Conflict"
             /\ (CreateStep(q) /\ sess[q].pc = "create_commit") =>
                   IF NumberUsed(q)
                   THEN /\ CreateEnded(q) /\ sess'[q].status # "ok"
                        /\ invoices' = invoices
                   ELSE /\ sess'[q].pc = "create_refresh"
                        /\ sess'[q].id = Len(invoices) + 1
                        /\ ~ Stored(invoices, sess'[q].id)
                        /\ Stored(invoices', sess'[q].id)
                        /\ invoices'[sess'[q].id].tenant_id = sess'[q].tenant
                        /\ invoices'[sess'[q].id].invoice_number
                              = sess'[q].arg.invoice_number
             /\ (CreateStep(q) /\ sess[q].pc = "create_refresh") =>
                   /\ invoices' = invoices
                   /\ CreateEnded(q)
                   /\ Stored(invoices, sess[q].id) =>
                         sess'[q].status = "ok" /\ sess'[q].result = sess[q].id
      ]_vars

\* One tenant was refused a number it has, the other tenant stored the same
\* number and its request succeeded, and a request that lost the race for a
\* number was stopped by the constraint.
C26_Witness ==
    /\ \E i, j \in 1..Len(invoices) :
          /\ invoices[i].tenant_id # invoices[j].tenant_id
          /\ invoices[i].invoice_number # <<>>
          /\ invoices[i].invoice_number = invoices[j].invoice_number
          /\ \E q \in Procs :
                /\ sess[q].pc = "done" /\ sess[q].op = "create_invoice"
                /\ sess[q].status = "ok" /\ sess[q].result = j
                /\ sess[q].tenant = invoices[j].tenant_id
    /\ \E q \in Procs :
          /\ sess[q].pc = "done" /\ sess[q].op = "create_invoice"
          /\ sess[q].status = "PersistenceError" /\ sess[q].result = 0
          /\ sess[q].arg.invoice_number # <<>>
          /\ \E i \in 1..Len(invoices) :
                /\ invoices[i].tenant_id = sess[q].tenant
                /\ invoices[i].invoice_number = sess[q].arg.invoice_number

\* --------------------------------------------------------------- C27
LastExplain(st) == st.op = "explain"

\* The explain request ran with AI disabled, without API key, or with an AI
\* call that raised.
AIUnavailable(st) == ~ st.arg[3] \/ st.arg[4] = <<>> \/ st.arg[5] = AIRaises

\* C27: an explain request for a stored pair of the tenant never fails and
\* writes nothing, whatever the AI settings and the AI call do, and reports
\* the scorer's score; when AI is disabled, has no key or raises, the
\* explanation is the rule-based text, which is not empty and opens with the
\* score.
C27_ExplanationFallback ==
    [][LastExplain(last') =>
          /\ invoices' = invoices /\ transactions' = transactions
          /\ matches' = matches /\ idem' = idem
          /\ (/\ invoices[last'.arg[1]].tenant_id = last'.tenant
              /\ transactions[last'.arg[2]].tenant_id = last'.tenant) =>
                /\ last'.status = "ok"
                /\ last'.result.score
                      = CalculateMatchScore(invoices[last'.arg[1]],
                                            transactions[last'.arg[2]]).score
                /\ AIUnavailable(last') =>
                      /\ Len(last'.result.explanation) >= 2
                      /\ last'.result.explanation[1] = <<"Match score", last'.result.score>>
                      /\ \A x \in 1..Len(last'.result.explanation) :
                            last'.result.explanation[x][1] # "ai"]_vars

\* AI was enabled with a key and the call raised: the request answered with
\* the rule-based text.
C27_Witness ==
    /\ LastExplain(last) /\ last.status = "ok"
    /\ last.arg[3] /\ last.arg[4] # <<>> /\ last.arg[5] = AIRaises
    /\ last.result.explanation[1][1] = "Match score"

\* --------------------------------------------------------------- C28
\* A string that is empty or only white space.
BlankStr(v) == v \in {"", " "}

\* A given text that is empty.
EmptyText(v) == v = <<<<>>>>

\* The item has a non-positive amount, an empty or blank currency or an empty
\* external_id.
BadItem(raw) == raw.amount <= 0 \/ BlankStr(raw.currency) \/ raw.external_id = ""

\* The invoice has a non-positive amount or an empty invoice_number, currency
\* or description.
BadInvoice(raw) ==
    \/ raw.amount <= 0
    \/ EmptyText(raw.invoice_number)
    \/ raw.currency = ""
    \/ EmptyText(raw.description)

\* C28: an import batch with an item of non-positive amount, empty or blank
\* currency or empty external_id is answered with a validation error and
\* changes no table (no transaction of the batch and no idempotency record is
\* stored); an invoice with non-positive amount or empty invoice_number,
\* currency or description is answered with a validation error and not
\* stored.
C28_ValidationFirst ==
    [][/\ (/\ last'.op = "post_import"
           /\ \E x \in 1..Len(last'.arg[2]) : BadItem(last'.arg[2][x]))
          => /\ last'.status = "ValidationError"
             /\ transactions' = transactions /\ idem' = idem
             /\ invoices' = invoices /\ matches' = matches
       /\ (last'.op = "post_invoice" /\ BadInvoice(last'.arg))
          => /\ last'.status = "ValidationError"
             /\ invoices' = invoices /\ transactions' = transactions
             /\ idem' = idem /\ matches' = matches]_vars

\* A batch under a key whose first item is valid and new and whose second
\* item has a blank currency was rejected, and nothing of it is stored.
C28_Witness ==
    /\ last.op = "post_import" /\ last.status = "ValidationError"
    /\ last.arg[1] # NoKey
    /\ Len(last.arg[2]) = 2
    /\ last.arg[2][1] = RawX
    /\ last.arg[2][2].currency = " "
    /\ transactions = <<>> /\ idem = <<>>

\* --------------------------------------------------------------- C29
\* The rows of the table that belong to tenant t and carry external id e.
RowsOf(txs, t, e) ==
    {b \in 1..Len(txs) : txs[b].tenant_id = t /\ txs[b].external_id = e}

\* The batch p names external id e in two places, no row of tenant t carries
\* e yet, and the request's key (if any) has no record.
SharedNewId(st, e) ==
    /\ LastImport(st)
    /\ e # None
    /\ \E x \in 1..Len(st.arg[2]) : \E y \in (1..Len(st.arg[2])) \ {x} :
          st.arg[2][x].external_id = e /\ st.arg[2][y].external_id = e
    /\ RowsOf(transactions, st.tenant, e) = {}
    /\ \/ st.arg[1] = NoKey
       \/ ~ \E r \in 1..Len(idem) :
              idem[r].tenant_id = st.tenant /\ idem[r].idempotency_key = st.arg[1]

\* C29: an import whose batch holds two items of one external id that is not
\* stored for the tenant succeeds, leaves exactly one row of that tenant and
\* external id, and every result entry of an item with that external id is
\* the id of that row.
C29_SharedIdOneRow ==
    [][\A e \in {"x"} :
          SharedNewId(last', e) =>
             /\ last'.status = "ok"
             /\ Cardinality(RowsOf(transactions', last'.tenant, e)) = 1
             /\ \A x \in 1..Len(last'.arg[2]) :
                   last'.arg[2][x].external_id = e
                      => /\ x <= Len(last'.result)
                         /\ last'.result[x] \in RowsOf(transactions', last'.tenant, e)]_vars

\* --------------------------------------------------------------- C30
\* The factor entries the scored pair has: the amount entry, the date entry
\* if both dates are present, the text entry if the similarity is positive.
StatedReasons ==
    <<StatedAmountReason(Abs(ScoredInvoice.amount - ScoredTransaction.amount))>>
       \o (IF ScoredInvoice.invoice_date = <<>> THEN <<>>
           ELSE IF ScoredDays <= 3 THEN <<<<"date within days", ScoredDays>>>>
           ELSE <<<<"date difference days", ScoredDays>>>>)
       \o (IF TextSimilarity(ScoredInvoice, ScoredTransaction)[1] > 0
           THEN <<<<"text similarity match", 0>>>> ELSE <<>>)

\* The text is the entries in order with "; " between neighbours.
JoinedWith(text, entries) ==
    /\ Len(text) = 2 * Len(entries) - 1
    /\ \A x \in 1..Len(entries) : text[2 * x - 1] = entries[x]
    /\ \A x \in 1..(Len(entries) - 1) : text[2 * x] = <<"; ", 0>>

\* No factor adds to the score of the pair: the amounts differ by more than
\* the tolerance, a date is absent or the dates are more than 3 days apart,
\* and the text similarity is 0.
NoFactor ==
    /\ Abs(ScoredInvoice.amount - ScoredTransaction.amount) > 1
    /\ \/ ScoredInvoice.invoice_date = <<>>
       \/ ScoredDays > 3
    /\ TextSimilarity(ScoredInvoice, ScoredTransaction)[1] = 0

\* C30, as stated: the reason is the "; "-joined list of factor reasons, and
\* a pair to which no factor contributes scores 0.00 with the reason "low
\* confidence match".
C30_LowConfidenceReason ==
    LastScore(last) =>
        IF NoFactor
        THEN last.result.score = 0 /\ last.result.reason = <<<<"low confidence match", 0>>>>
        ELSE JoinedWith(last.result.reason, StatedReasons)

\* C30, amended: the reason is the "; "-joined list of factor reasons, whose
\* first entry is always the amount factor's; a pair to which no factor
\* contributes scores 0.00 and its reason is "amount mismatch", followed by
\* "; date difference N days" when both dates are present; the reason is
\* never "low confidence match".
C30_ReasonJoined ==
    LastScore(last) =>
        /\ JoinedWith(last.result.reason, StatedReasons)
        /\ last.result.reason # <<<<"low confidence match", 0>>>>
        /\ NoFactor =>
              /\ last.result.score = 0
              /\ last.result.reason =
                    IF ScoredInvoice.invoice_date = <<>>
                    THEN <<<<"amount mismatch", 0>>>>
                    ELSE <<<<"amount mismatch", 0>>, <<"; ", 0>>,
                           <<"date difference days", ScoredDays>>>>

\* A dated pair to which no factor contributes was scored.
C30_Witness ==
    /\ LastScore(last)
    /\ NoFactor
    /\ ScoredInvoice.invoice_date # <<>>
    /\ Len(last.result.reason) = 3

\* --------------------------------------------------------------- C31
\* The scored pair with its two timestamps exchanged.
SwappedInvoice == [ScoredInvoice EXCEPT !.invoice_date = <<ScoredTransaction.posted_at>>]
SwappedTransaction == [ScoredTransaction EXCEPT !.posted_at = ScoredInvoice.invoice_date[1]]

\* C31: for every dated pair, exchanging the two timestamps gives the same
\* number of days, the same date contribution and the same date reason.
C31_DateSymmetric ==
    (LastScore(last) /\ ScoredInvoice.invoice_date # <<>>) =>
        /\ DateDiffDays(SwappedInvoice.invoice_date[1], SwappedTransaction.posted_at)
              = ScoredDays
        /\ DateTerm(SwappedInvoice, SwappedTransaction)
              = DateTerm(ScoredInvoice, ScoredTransaction)
        /\ \A x \in DateReasons :
              last.result.reasons[x]
                 \in Range(CalculateMatchScore(SwappedInvoice, SwappedTransaction).reasons)

\* --------------------------------------------------------------- C32
\* Before the request there is a record of its tenant and key with the hash
\* of its payload.
PriorRecord(st) ==
    /\ st.arg[1] # NoKey
    /\ \E r \in 1..Len(idem) :
          /\ idem[r].tenant_id = st.tenant
          /\ idem[r].idempotency_key = st.arg[1]
          /\ idem[r].payload_hash = HashPayload(st.arg[2])

\* C32: an import answers replayed = true only when a record of (tenant, key)
\* with the same payload hash existed before the call; without a key, or with
\* a key that had no record, it answers replayed = false, also when every
\* item of the batch was already stored.
C32_ReplayedOnlyOnRecord ==
    [][(LastImport(last') /\ last'.status = "ok" /\ last'.replayed) => PriorRecord(last')]_vars

\* --------------------------------------------------------------- C33
\* C33: in every reachable state no invoice has more than one CONFIRMED
\* match, also when reconcile runs proposed it to different transactions.
C33_OneConfirmedPerInvoice ==
    \A a, b \in 1..Len(matches) :
        (/\ a # b
         /\ matches[a].status = CONFIRMED
         /\ matches[b].status = CONFIRMED
         /\ matches[a].tenant_id = matches[b].tenant_id)
            => matches[a].invoice_id # matches[b].invoice_id

\* --------------------------------------------------------------- C34
\* The Match rows of tenant t for invoice i and transaction b.
RowsFor(ms, t, i, b) ==
    {m \in 1..Len(ms) : /\ ms[m].tenant_id = t /\ ms[m].invoice_id = i
                        /\ ms[m].bank_transaction_id = b}

\* C34: when a reconcile run returns, every returned candidate has exactly
\* one Match row of its tenant, invoice and transaction; every row the run
\* inserted is PROPOSED, belongs to a returned candidate and carries its score
\* (between 20.00 and 100.00); the run inserts at most one row per invoice, and
\* only for invoices that were OPEN; the rows that existed before, the
\* invoices, the transactions and the idempotency records are unchanged.
C34_ReconcileEffect ==
    [][(LastReconcile(last') /\ last'.status = "ok") =>
          /\ invoices' = invoices /\ transactions' = transactions /\ idem' = idem
          /\ Len(matches') = Len(matches) + last'.writes
          /\ SubSeq(matches', 1, Len(matches)) = matches
          /\ \A x \in 1..Len(last'.result) :
                Cardinality(RowsFor(matches', last'.tenant, last'.result[x].invoice_id,
                                    last'.result[x].bank_transaction_id)) = 1
          /\ \A m \in (Len(matches) + 1)..Len(matches') :
                /\ matches'[m].status = PROPOSED
                /\ matches'[m].tenant_id = last'.tenant
                /\ matches'[m].score >= 2000 /\ matches'[m].score <= 10000
                /\ invoices[matches'[m].invoice_id].status = OPEN
                /\ \E x \in 1..Len(last'.result) :
                      /\ last'.result[x].invoice_id = matches'[m].invoice_id
                      /\ last'.result[x].bank_transaction_id = matches'[m].bank_transaction_id
                      /\ last'.result[x].score = matches'[m].score
                /\ \A n \in (Len(matches) + 1)..Len(matches') :
                      n # m => matches'[n].invoice_id # matches'[m].invoice_id]_vars

\* A run returned two candidates, one of which had its row before the run and
\* one of which got its row from the run.
C34_Witness ==
    /\ LastReconcile(last) /\ last.status = "ok"
    /\ Len(last.result) = 2
    /\ last.writes = 1
    /\ Len(matches) = 2

\* --------------------------------------------------------------- C35
\* The request st2 follows the successful keyed import st of the same tenant
\* under the same key.
SameKeyAgain(st, st2) ==
    /\ LastImport(st) /\ st.status = "ok" /\ st.arg[1] # NoKey
    /\ LastImport(st2) /\ st2.tenant = st.tenant /\ st2.arg[1] = st.arg[1]

\* The field values of an item: external id, instant, amount, currency and
\* description.
ItemValues(it) ==
    <<it.external_id, it.posted_at, it.amount, it.currency, it.description>>

\* Two batches are the same items with the same field values in the same
\* order.
SameItems(p, q) ==
    /\ Len(p) = Len(q)
    /\ \A x \in 1..Len(p) : ItemValues(p[x]) = ItemValues(q[x])

\* C35: two batches have the same payload hash exactly when they are the
\* same items with the same field values in the same order; an import under a
\* key whose record was written by the preceding import fails with Conflict
\* and changes nothing when its batch differs from that import's batch in a
\* field of an item, in the number of items or in the order only, and
\* succeeds when the batch is the same.
C35_HashOrderedComplete ==
    [][SameKeyAgain(last, last') =>
          /\ (HashPayload(last'.arg[2]) = HashPayload(last.arg[2]))
                <=> SameItems(last'.arg[2], last.arg[2])
          /\ GetPayloadHash(idem, last.tenant, last.arg[1]) = HashPayload(last.arg[2])
          /\ ~ SameItems(last'.arg[2], last.arg[2]) =>
                /\ last'.status = "Conflict"
                /\ transactions' = transactions /\ idem' = idem
          /\ SameItems(last'.arg[2], last.arg[2]) => last'.status = "ok"]_vars

\* --------------------------------------------------------------- C36
\* C36: no request modifies or removes a stored bank transaction: every step
\* leaves the stored rows as they were and only appends; an import item whose
\* external id the tenant has stored gets the stored row in the result, and
\* the row keeps the amount, currency, posting time and description it was
\* stored with.
C36_TransactionsImmutable ==
    [][/\ Len(transactions') >= Len(transactions)
       /\ SubSeq(transactions', 1, Len(transactions)) = transactions
       /\ (LastImport(last') /\ last'.status = "ok") =>
             \A x \in 1..Len(last'.arg[2]) :
                \A b \in RowsOf(transactions, last'.tenant, last'.arg[2][x].external_id) :
                   last'.arg[2][x].external_id # None =>
                      /\ b \in Range(last'.result)
                      /\ transactions'[b] = transactions[b]]_vars

\* An import named the external id of a stored row with another amount,
\* currency, posting time and description and got that row, which still has
\* its first values and by now a CONFIRMED match.
C36_Witness ==
    /\ LastImport(last) /\ last.status = "ok"
    /\ last.arg[2] = <<ItemX2>>
    /\ Len(last.result) = 1
    /\ last.writes = 0
    /\ transactions[last.result[1]].amount = ItemX.amount
    /\ transactions[last.result[1]].currency = ItemX.currency
    /\ transactions[last.result[1]].posted_at = ItemX.posted_at
    /\ transactions[last.result[1]].description = ItemX.description
    /\ \E m \in 1..Len(matches) :
          matches[m].status = CONFIRMED /\ matches[m].bank_transaction_id = last.result[1]

\* --------------------------------------------------------------- C37
\* The records of tenant t under key k.
RecordsOf(tbl, t, k) ==
    {r \in 1..Len(tbl) : tbl[r].tenant_id = t /\ tbl[r].idempotency_key = k}

\* C37: external ids and idempotency keys are scoped per tenant.  An import
\* of tenant t leaves the rows and records of the other tenants as they are;
\* it fails with Conflict only on a record of t itself under the key with
\* another hash, whatever the other tenants stored under that key; when it
\* succeeds, every returned row is a row of t, every item with an external id
\* is returned as a row of t with that id, and under a key t has exactly one
\* record of its own, listing rows of t only.
C37_TenantScopedKeys ==
    [][LastImport(last') =>
          /\ Len(idem') >= Len(idem)
          /\ \A b \in 1..Len(transactions) :
                transactions[b].tenant_id # last'.tenant => transactions'[b] = transactions[b]
          /\ \A r \in 1..Len(idem) :
                idem[r].tenant_id # last'.tenant => idem'[r] = idem[r]
          /\ last'.status = "Conflict" =>
                \E r \in RecordsOf(idem, last'.tenant, last'.arg[1]) :
                   idem[r].payload_hash # HashPayload(last'.arg[2])
          /\ last'.status = "ok" =>
                /\ \A x \in 1..Len(last'.result) :
                      /\ last'.result[x] \in 1..Len(transactions')
                      /\ transactions'[last'.result[x]].tenant_id = last'.tenant
                /\ \A x \in 1..Len(last'.arg[2]) :
                      last'.arg[2][x].external_id # None =>
                         \E b \in RowsOf(transactions', last'.tenant,
                                         last'.arg[2][x].external_id) :
                            b \in Range(last'.result)
                /\ last'.arg[1] # NoKey =>
                      /\ Cardinality(RecordsOf(idem', last'.tenant, last'.arg[1])) = 1
                      /\ \A r \in RecordsOf(idem', last'.tenant, last'.arg[1]) :
                            \A b \in Range(idem'[r].transaction_ids) :
                               transactions'[b].tenant_id = last'.tenant]_vars

\* Both tenants have imported the external id "x" under the key "k1", with
\* different payloads: each has its own row and its own record, and the later
\* import succeeded with a new row.
C37_Witness ==
    /\ LastImport(last) /\ last.status = "ok" /\ last.arg[1] = "k1" /\ last.writes = 1
    /\ \A t \in Tenants :
          /\ Cardinality(RowsOf(transactions, t, "x")) = 1
          /\ Cardinality(RecordsOf(idem, t, "k1")) = 1
    /\ \E r1 \in RecordsOf(idem, 1, "k1") : \E r2 \in RecordsOf(idem, 2, "k1") :
          /\ idem[r1].payload_hash # idem[r2].payload_hash
          /\ idem[r1].transaction_ids # idem[r2].transaction_ids

\* --------------------------------------------------------------- C38
\* C38: no operation scores an invoice and a transaction of different
\* currencies: an explain request that was answered with a score named a
\* pair of one currency.
C38_NoCrossCurrencyScore ==
    (last.op = "explain" /\ last.status = "ok") =>
        invoices[last.arg[1]].currency = transactions[last.arg[2]].currency

====
